---- MODULE Spec2Model ----
(***************************************************************************)
(* Model of the credit evaluation engine of ms_prestamos:                  *)
(* CreditEvaluationUseCase.evaluateCreditProfile and its helpers.          *)
(*                                                                         *)
(* Units.  Scores are JavaScript numbers with at most one decimal; the     *)
(* model keeps them in tenths (overallScore 72.5 is 725).  Money is kept   *)
(* in cents, the annual interest rate in hundredths of a percent.          *)
(* JavaScript numbers that may be NaN or +/-Infinity are records           *)
(* [kind, v] (see Fin, NaN, PosInf, NegInf).                               *)
(***************************************************************************)
EXTENDS Integers, Sequences, FiniteSets, TLC

VARIABLES
    profile,       \* the CreditEvaluationProfile handed to evaluateCreditProfile
    missing,       \* the required fields of that profile that are undefined or null
    today,         \* new Date() at call time, as the local calendar date <<y, m, d>>
    tzWest,        \* TRUE when the process's local time zone is behind UTC
    pc,            \* "idle" before the call; afterwards the way the call returned
    age,           \* local `age` of evaluateCreditProfile
    scores,        \* local `scores` (FactorScores)
    overallScore,  \* local `overallScore`, in tenths
    result,        \* the CreditEvaluationResponse returned
    terms,         \* one call of calculateLoanDetails: its arguments and its return
    service,       \* a CreditEvaluationService with its ExcelAnalyzerService
    endpoint,      \* one POST handled by a controller's evaluateCredit
    auth,          \* one request passing AuthMiddleware.authenticate on the webhook router
    application,   \* a loan application, its repository row and the decisions on it
    cuotas,        \* one call of calcularRangoCuotasDinamico
    batch,         \* one call of evaluateMultipleProfiles
    limiter,       \* SentryLogService.logRateLimit and the clock
    alerts,        \* SentryAlertsManager.alertCounts and the clock
    blob           \* one call of AzureBlobStorageService.getBlob / getBlobMetadata

\* The variables of the credit evaluation engine, its service and endpoint.
creditVars ==
    <<profile, missing, today, tzWest, pc, age, scores, overallScore, result,
      terms, service, endpoint>>

\* The variables of the other components.
restVars == <<auth, application, cuotas, batch, limiter, alerts, blob>>

vars == <<creditVars, restVars>>

----------------------------------------------------------------------------
(* JavaScript numbers *)

Fin(n) == [kind |-> "fin", v |-> n]
NaN == [kind |-> "nan", v |-> 0]
PosInf == [kind |-> "inf", v |-> 0]
NegInf == [kind |-> "ninf", v |-> 0]

IsFinite(x) == x.kind = "fin"

\* x < n and x > n for a JavaScript number x and an integer n; every
\* comparison with NaN is false.
NumLT(x, n) ==
    CASE x.kind = "fin" -> x.v < n
      [] x.kind = "ninf" -> TRUE
      [] OTHER -> FALSE

NumGT(x, n) ==
    CASE x.kind = "fin" -> x.v > n
      [] x.kind = "inf" -> TRUE
      [] OTHER -> FALSE

NumGE(x, n) ==
    CASE x.kind = "fin" -> x.v >= n
      [] x.kind = "inf" -> TRUE
      [] OTHER -> FALSE

NumLE(x, n) ==
    CASE x.kind = "fin" -> x.v <= n
      [] x.kind = "ninf" -> TRUE
      [] OTHER -> FALSE

\* The integer nearest to n / d (d > 0), a half rounded towards +Infinity,
\* as Math.round does.
HalfUp(n, d) == (2 * n + d) \div (2 * d)

IsHalf(n, d) == (2 * n) % d = 0 /\ ((2 * n) \div d) % 2 # 0

\* Math.round(x) for a double x computed by a chain of inexact operations
\* whose exact value is n / d.  The double differs from n / d by a relative
\* error below 1e-14, so Math.round(x) is HalfUp(n, d) whenever n / d is not
\* an exact half; at an exact half the double may have landed on either side.
MathRound(n, d) ==
    IF IsHalf(n, d) THEN {HalfUp(n, d) - 1, HalfUp(n, d)} ELSE {HalfUp(n, d)}

\* Math.round(a / b * 100)-style quotients whose divisor b may be 0:
\* x / 0 is NaN for x = 0, +Infinity for x > 0, -Infinity for x < 0, and
\* Math.round leaves these unchanged.
MathRoundDiv(n, d) ==
    IF d = 0
    THEN {IF n = 0 THEN NaN ELSE IF n > 0 THEN PosInf ELSE NegInf}
    ELSE {Fin(r) : r \in MathRound(n, d)}

----------------------------------------------------------------------------
(* Dates *)

IsLeap(y) == (y % 4 = 0 /\ y % 100 # 0) \/ y % 400 = 0

DaysInMonth(y, m) ==
    IF m = 2 THEN (IF IsLeap(y) THEN 29 ELSE 28)
    ELSE IF m \in {4, 6, 9, 11} THEN 30 ELSE 31

PrevDay(dt) ==
    IF dt[3] > 1 THEN <<dt[1], dt[2], dt[3] - 1>>
    ELSE IF dt[2] > 1 THEN <<dt[1], dt[2] - 1, DaysInMonth(dt[1], dt[2] - 1)>>
    ELSE <<dt[1] - 1, 12, 31>>

\* new Date("YYYY-MM-DD"): the string is given by its three numbers.  A month
\* outside 1..12 or a day outside 1..31 gives an Invalid Date (<<>> here); a
\* day past the end of its month rolls over into the next month.  The
\* date-only form is UTC midnight.
ParseDate(s) ==
    IF s[2] \notin 1..12 \/ s[3] \notin 1..31 THEN <<>>
    ELSE IF s[3] > DaysInMonth(s[1], s[2])
         THEN <<s[1], s[2] + 1, s[3] - DaysInMonth(s[1], s[2])>>
         ELSE s

\* getFullYear / getMonth / getDate read the local calendar date: UTC
\* midnight is still the previous day in a time zone behind UTC.
LocalDate(utc, west) == IF west THEN PrevDay(utc) ELSE utc

----------------------------------------------------------------------------
(* Inputs *)

MaxIngresosK == 1
MaxGastosJ == 6
MaxMontoN == 7
MaxLaborandoK == 4

IngresosValues == {1000 * k : k \in 0..MaxIngresosK}
GastosValues == {0} \cup {50 + 100 * j : j \in 0..MaxGastosJ}
MontoValues == {12000 * n : n \in 1..MaxMontoN}
LaborandoValues == {12 * k : k \in 0..MaxLaborandoK}

TipoDocumentoValues == {"cedula", "pasaporte", "CEDULA", "licencia"}
PeriodoPagoValues == {"semanal", "quincenal", "mensual", "anual"}

TodayDates == {<<2024, 3, 1>>}

\* Birthdays on today's date and on the day after it, at the edges of the age
\* gate (18, 70) and of the optimal range (25, 55); one birthday in a later
\* month and one in an earlier month; one string that is no calendar date.
FechaNacimientoValues ==
    {<<2024 - k, 3, d>> : k \in {18, 25, 56, 71}, d \in {1, 2}}
        \cup {<<2006, 4, 1>>, <<1953, 1, 15>>, <<1990, 13, 1>>}

RequiredFields ==
    <<"nombre", "tipoDocumento", "numeroDocumento", "fechaNacimiento",
      "tipoPrestamo", "montoSolicitado", "plazoMeses", "periodoPago",
      "ingresosMensuales", "gastosMensuales", "tiempoLaborando">>

FieldNames == {RequiredFields[i] : i \in DOMAIN RequiredFields}

Profiles ==
    [nombre : {"Ana Ruiz"},
     tipoDocumento : TipoDocumentoValues,
     numeroDocumento : {"001"},
     fechaNacimiento : FechaNacimientoValues,
     tipoPrestamo : {"personal"},
     montoSolicitado : MontoValues,
     plazoMeses : {24},
     periodoPago : PeriodoPagoValues,
     ingresosMensuales : IngresosValues,
     gastosMensuales : GastosValues,
     tiempoLaborando : LaborandoValues]

ExampleProfile ==
    [nombre |-> "Ana Ruiz", tipoDocumento |-> "cedula", numeroDocumento |-> "001",
     fechaNacimiento |-> <<1999, 3, 1>>, tipoPrestamo |-> "personal",
     montoSolicitado |-> 48000, plazoMeses |-> 24, periodoPago |-> "mensual",
     ingresosMensuales |-> 1000, gastosMensuales |-> 250, tiempoLaborando |-> 48]

\* Profiles with a field that is present and empty.
EmptyFieldProfiles ==
    {[ExampleProfile EXCEPT !.nombre = ""],
     [ExampleProfile EXCEPT !.numeroDocumento = ""],
     [ExampleProfile EXCEPT !.tipoPrestamo = ""]}

\* Requests with absent fields: one absent field, or two.
MissingSets == {m \in SUBSET FieldNames : Cardinality(m) \in {1, 2}}

----------------------------------------------------------------------------
(* CreditEvaluationUseCase *)

NumberFields ==
    {"montoSolicitado", "plazoMeses", "ingresosMensuales", "gastosMensuales",
     "tiempoLaborando"}

StringFields ==
    {"nombre", "tipoDocumento", "numeroDocumento", "tipoPrestamo", "periodoPago"}

\* validateProfile with `!profile[field]` for the undefined/null test: 0 and
\* the empty string count as absent.
validateProfile_Falsy(p, miss) ==
    LET absent(f) ==
            \/ f \in miss
            \/ f \in NumberFields /\ p[f] = 0
            \/ f \in StringFields /\ p[f] = ""
    IN  IF \E i \in DOMAIN RequiredFields : absent(RequiredFields[i])
        THEN RequiredFields[CHOOSE i \in DOMAIN RequiredFields :
                 /\ absent(RequiredFields[i])
                 /\ \A j \in 1..(i - 1) : ~absent(RequiredFields[j])]
        ELSE ""

\* validateProfile: the first required field that is undefined or null, in
\* the order of requiredFields ("" when none is: the method returns).  The
\* fields of p that are undefined or null are the ones in miss; the value of
\* a field that is present is not looked at.
validateProfile(p, miss) ==
    LET absent(f) == f \in miss
    IN  IF \E i \in DOMAIN RequiredFields : absent(RequiredFields[i])
        THEN RequiredFields[CHOOSE i \in DOMAIN RequiredFields :
                 /\ absent(RequiredFields[i])
                 /\ \A j \in 1..(i - 1) : ~absent(RequiredFields[j])]
        ELSE ""

\* calculateAge: NaN for an Invalid Date (every getter returns NaN).
calculateAge(fechaNacimiento, now, west) ==
    IF ParseDate(fechaNacimiento) = <<>> THEN NaN
    ELSE LET birthDate == LocalDate(ParseDate(fechaNacimiento), west)
             years == now[1] - birthDate[1]
             monthDiff == now[2] - birthDate[2]
         IN  IF monthDiff < 0 \/ (monthDiff = 0 /\ now[3] < birthDate[3])
             THEN Fin(years - 1)
             ELSE Fin(years)

evalCriteria ==
    [incomeDebtRatio |-> [excellent |-> 25, good |-> 35, fair |-> 45, poor |-> 55],
     employmentStability |-> [excellent |-> 48, good |-> 36, fair |-> 24, poor |-> 12],
     loanIncomeRatio |-> [excellent |-> 3, good |-> 4, fair |-> 5, poor |-> 6],
     ageRange |-> [min |-> 18, max |-> 70, optimalMin |-> 25, optimalMax |-> 55],
     documentScores |-> [cedula |-> 100, pasaporte |-> 90]]

\* The percentages p in 0..100 for which the IEEE-754 double product
\* (p / 100) * 100 is greater than p: 0.55 * 100 is 55.00000000000001.
\* For every other p in 0..100 but 29, 57 and 58 the product is exactly p.
Times100Above == {7, 14, 28, 55, 56}

\* `incomeDebtRatio <= t` for incomeDebtRatio = (expenses / income) * 100,
\* income > 0, both integers.  Apart from the double's rounding (below 1e-13)
\* the ratio is 100 * expenses / income; the rounding decides the comparison
\* only when that value is exactly t, where the quotient is the double
\* nearest t / 100 and the product is the one of Times100Above.
RatioPctLE(expenses, income, t) ==
    IF 100 * expenses = t * income
    THEN t \notin Times100Above
    ELSE 100 * expenses < t * income

\* `x || 0` for a number x.
OrZero(x) == IF x = 0 THEN 0 ELSE x

\* String.prototype.toLowerCase on the document types of the model.
ToLowerCase(s) == IF s = "CEDULA" THEN "cedula" ELSE s

incomeDebtRatioScore(p, criteria) ==
    LET monthlyIncome == OrZero(p.ingresosMensuales)
        monthlyExpenses == OrZero(p.gastosMensuales)
        LE(t) == IF monthlyIncome > 0
                 THEN RatioPctLE(monthlyExpenses, monthlyIncome, t)
                 ELSE 100 <= t
    IN  IF LE(criteria.incomeDebtRatio.excellent) THEN 100
        ELSE IF LE(criteria.incomeDebtRatio.good) THEN 85
        ELSE IF LE(criteria.incomeDebtRatio.fair) THEN 70
        ELSE IF LE(criteria.incomeDebtRatio.poor) THEN 50
        ELSE 25

\* employmentStabilityScore with strict comparisons (`>` for `>=`).
employmentStabilityScore_Strict(p, criteria) ==
    LET employmentMonths == OrZero(p.tiempoLaborando)
    IN  IF employmentMonths > criteria.employmentStability.excellent THEN 100
        ELSE IF employmentMonths > criteria.employmentStability.good THEN 85
        ELSE IF employmentMonths > criteria.employmentStability.fair THEN 70
        ELSE IF employmentMonths > criteria.employmentStability.poor THEN 50
        ELSE 25

employmentStabilityScore(p, criteria) ==
    LET employmentMonths == OrZero(p.tiempoLaborando)
    IN  IF employmentMonths >= criteria.employmentStability.excellent THEN 100
        ELSE IF employmentMonths >= criteria.employmentStability.good THEN 85
        ELSE IF employmentMonths >= criteria.employmentStability.fair THEN 70
        ELSE IF employmentMonths >= criteria.employmentStability.poor THEN 50
        ELSE 25

\* loanIncomeRatioScore with strict comparisons (`<` for `<=`).
loanIncomeRatioScore_Strict(p, criteria) ==
    LET loanAmount == OrZero(p.montoSolicitado)
        annualIncome == OrZero(p.ingresosMensuales) * 12
        LT(t) == IF annualIncome > 0 THEN loanAmount < t * annualIncome
                 ELSE 999 < t
    IN  IF LT(criteria.loanIncomeRatio.excellent) THEN 100
        ELSE IF LT(criteria.loanIncomeRatio.good) THEN 85
        ELSE IF LT(criteria.loanIncomeRatio.fair) THEN 70
        ELSE IF LT(criteria.loanIncomeRatio.poor) THEN 50
        ELSE 25

\* loanAmount / annualIncome is one correctly rounded division of two
\* integers, so it compares with the integer t as the exact quotient does.
loanIncomeRatioScore(p, criteria) ==
    LET loanAmount == OrZero(p.montoSolicitado)
        annualIncome == OrZero(p.ingresosMensuales) * 12
        LE(t) == IF annualIncome > 0 THEN loanAmount <= t * annualIncome
                 ELSE 999 <= t
    IN  IF LE(criteria.loanIncomeRatio.excellent) THEN 100
        ELSE IF LE(criteria.loanIncomeRatio.good) THEN 85
        ELSE IF LE(criteria.loanIncomeRatio.fair) THEN 70
        ELSE IF LE(criteria.loanIncomeRatio.poor) THEN 50
        ELSE 25

ageFactorScore(a, criteria) ==
    IF NumGE(a, criteria.ageRange.optimalMin) /\ NumLE(a, criteria.ageRange.optimalMax)
    THEN 100
    ELSE IF NumGE(a, criteria.ageRange.min) /\ NumLE(a, criteria.ageRange.max)
    THEN 85
    ELSE 50

documentTypeFactorScore(p, criteria) ==
    LET docType == ToLowerCase(p.tipoDocumento)
    IN  IF docType \in DOMAIN criteria.documentScores
        THEN criteria.documentScores[docType]
        ELSE 80

calculateFactorScores(p, a, criteria) ==
    [incomeDebtRatio |-> incomeDebtRatioScore(p, criteria),
     employmentStability |-> employmentStabilityScore(p, criteria),
     loanIncomeRatio |-> loanIncomeRatioScore(p, criteria),
     ageFactor |-> ageFactorScore(a, criteria),
     documentTypeFactor |-> documentTypeFactorScore(p, criteria)]

\* Object.entries(scores): the factors in the order calculateFactorScores
\* assigns them.
ScoreEntries ==
    <<"incomeDebtRatio", "employmentStability", "loanIncomeRatio", "ageFactor",
      "documentTypeFactor">>

\* The weights, in hundredths.
weights ==
    [incomeDebtRatio |-> 30, employmentStability |-> 25, loanIncomeRatio |-> 25,
     ageFactor |-> 10, documentTypeFactor |-> 10]

RECURSIVE totalScore(_, _)
\* totalScore after the first n entries, in hundredths of a point.
totalScore(sc, n) ==
    IF n = 0 THEN 0
    ELSE totalScore(sc, n - 1) + sc[ScoreEntries[n]] * weights[ScoreEntries[n]]

\* calculateOverallScore with Math.floor for Math.round.
calculateOverallScore_Floor(sc) == totalScore(sc, Len(ScoreEntries)) \div 10

\* calculateOverallScore, in tenths: Math.round(totalScore * 10) / 10.  For
\* each of the 5 * 5 * 5 * 3 * 3 combinations of factor scores the double sum
\* rounds as the exact sum does (a half upwards).
calculateOverallScore(sc) == HalfUp(totalScore(sc, Len(ScoreEntries)), 10)

determineRiskLevel(score) ==
    IF score >= 850 THEN "VERY_LOW"
    ELSE IF score >= 750 THEN "LOW"
    ELSE IF score >= 650 THEN "MEDIUM"
    ELSE IF score >= 500 THEN "ALTO"
    ELSE "VERY_HIGH"

\* calculatePeriodicidad with strict comparisons (`<` for `<=`).
calculatePeriodicidad_Strict(calificacion, periodoPago) ==
    IF periodoPago = "semanal"
    THEN (IF calificacion < 700 THEN 8
          ELSE IF calificacion < 850 THEN 13
          ELSE IF calificacion < 1000 THEN 15 ELSE 0)
    ELSE IF periodoPago = "quincenal"
    THEN (IF calificacion < 700 THEN 4
          ELSE IF calificacion < 850 THEN 7
          ELSE IF calificacion < 1000 THEN 8 ELSE 0)
    ELSE IF periodoPago = "mensual"
    THEN (IF calificacion < 700 THEN 3
          ELSE IF calificacion < 850 THEN 6
          ELSE IF calificacion < 1000 THEN 12 ELSE 0)
    ELSE 0

\* calculatePeriodicidad: calificacion / 100 is the double nearest the
\* quotient, and 70 / 100 and 85 / 100 are the doubles 0.70 and 0.85.
calculatePeriodicidad(calificacion, periodoPago) ==
    IF periodoPago = "semanal"
    THEN (IF calificacion <= 700 THEN 8
          ELSE IF calificacion <= 850 THEN 13
          ELSE IF calificacion <= 1000 THEN 15 ELSE 0)
    ELSE IF periodoPago = "quincenal"
    THEN (IF calificacion <= 700 THEN 4
          ELSE IF calificacion <= 850 THEN 7
          ELSE IF calificacion <= 1000 THEN 8 ELSE 0)
    ELSE IF periodoPago = "mensual"
    THEN (IF calificacion <= 700 THEN 3
          ELSE IF calificacion <= 850 THEN 6
          ELSE IF calificacion <= 1000 THEN 12 ELSE 0)
    ELSE 0

Max(a, b) == IF a >= b THEN a ELSE b
Min(a, b) == IF a <= b THEN a ELSE b

\* calculateInterestRate with the VERY_LOW tier's slope spread over 10 points
\* of score in place of 15.
calculateInterestRate_Slope10(score, riskLevel) ==
    LET rate ==
            IF score >= 850 THEN <<800 * 100 + (1000 - score) * 400, 100>>
            ELSE IF score >= 750 THEN <<1200 * 100 + (850 - score) * 400, 100>>
            ELSE IF score >= 650 THEN <<1600 * 100 + (750 - score) * 400, 100>>
            ELSE IF score >= 500 THEN <<2000 * 150 + (650 - score) * 500, 150>>
            ELSE <<2500 * 500 + (500 - score) * 500, 500>>
        clamped == Max(800 * rate[2], Min(3000 * rate[2], rate[1]))
    IN  HalfUp(clamped, rate[2])

\* calculateInterestRate, in hundredths of a percent.  rate[1] / rate[2] is
\* the exact rate in hundredths; it is never an exact half (the denominators
\* reduce to 3 or 1), so Math.round rounds it as HalfUp does.
calculateInterestRate(score, riskLevel) ==
    LET rate ==
            IF score >= 850 THEN <<800 * 150 + (1000 - score) * 400, 150>>
            ELSE IF score >= 750 THEN <<1200 * 100 + (850 - score) * 400, 100>>
            ELSE IF score >= 650 THEN <<1600 * 100 + (750 - score) * 400, 100>>
            ELSE IF score >= 500 THEN <<2000 * 150 + (650 - score) * 500, 150>>
            ELSE <<2500 * 500 + (500 - score) * 500, 500>>
        clamped == Max(800 * rate[2], Min(3000 * rate[2], rate[1]))
    IN  HalfUp(clamped, rate[2])

\* calculateLoanDetails that leaves the terms of a rejected score empty.
calculateLoanDetails_ApprovedOnly(score, montoSolicitado, periodoPago, riskLevel) ==
    LET periodicidad == calculatePeriodicidad(score, periodoPago)
        tasaInteresAnual == calculateInterestRate(score, riskLevel)
    IN  IF score < 700
        THEN {[calificacion |-> score, montoSolicitado |-> montoSolicitado,
               montoAprobado |-> 0, periodoPago |-> periodoPago,
               periodicidad |-> 0, montoPorPeriodo |-> 0, tasaInteresAnual |-> 0]}
        ELSE {[calificacion |-> score,
               montoSolicitado |-> montoSolicitado,
               montoAprobado |-> ma,
               periodoPago |-> periodoPago,
               periodicidad |-> periodicidad,
               montoPorPeriodo |-> mp,
               tasaInteresAnual |-> tasaInteresAnual] :
                 ma \in MathRound(score * montoSolicitado, 10),
                 mp \in IF periodicidad > 0
                        THEN MathRound(score * montoSolicitado, 10 * periodicidad)
                        ELSE {0}}

\* calculateLoanDetails with the approved amount cut to whole cents.
calculateLoanDetails_Truncated(score, montoSolicitado, periodoPago, riskLevel) ==
    LET periodicidad == calculatePeriodicidad(score, periodoPago)
        tasaInteresAnual == calculateInterestRate(score, riskLevel)
    IN  {[calificacion |-> score,
          montoSolicitado |-> montoSolicitado,
          montoAprobado |-> (score * montoSolicitado) \div 10,
          periodoPago |-> periodoPago,
          periodicidad |-> periodicidad,
          montoPorPeriodo |-> mp,
          tasaInteresAnual |-> tasaInteresAnual] :
            mp \in IF periodicidad > 0
                   THEN MathRound(score * montoSolicitado, 10 * periodicidad)
                   ELSE {0}}

\* calculateLoanDetails with one year of simple interest folded into the
\* instalment.
calculateLoanDetails_WithInterest(score, montoSolicitado, periodoPago, riskLevel) ==
    LET periodicidad == calculatePeriodicidad(score, periodoPago)
        tasaInteresAnual == calculateInterestRate(score, riskLevel)
    IN  {[calificacion |-> score,
          montoSolicitado |-> montoSolicitado,
          montoAprobado |-> ma,
          periodoPago |-> periodoPago,
          periodicidad |-> periodicidad,
          montoPorPeriodo |-> mp,
          tasaInteresAnual |-> tasaInteresAnual] :
            ma \in MathRound(score * montoSolicitado, 10),
            mp \in IF periodicidad > 0
                   THEN MathRound(score * montoSolicitado * (10000 + tasaInteresAnual),
                                  10 * periodicidad * 10000)
                   ELSE {0}}

\* calculateLoanDetails: the LoanDetails it can return (amounts in cents).
\* montoAprobado is score / 1000 * montoSolicitado before rounding, and
\* montoPorPeriodo divides the unrounded amount.
calculateLoanDetails(score, montoSolicitado, periodoPago, riskLevel) ==
    LET periodicidad == calculatePeriodicidad(score, periodoPago)
        tasaInteresAnual == calculateInterestRate(score, riskLevel)
    IN  {[calificacion |-> score,
          montoSolicitado |-> montoSolicitado,
          montoAprobado |-> ma,
          periodoPago |-> periodoPago,
          periodicidad |-> periodicidad,
          montoPorPeriodo |-> mp,
          tasaInteresAnual |-> tasaInteresAnual] :
            ma \in MathRound(score * montoSolicitado, 10),
            mp \in IF periodicidad > 0
                   THEN MathRound(score * montoSolicitado, 10 * periodicidad)
                   ELSE {0}}

----------------------------------------------------------------------------
(* The call *)

NoScores ==
    [incomeDebtRatio |-> 0, employmentStability |-> 0, loanIncomeRatio |-> 0,
     ageFactor |-> 0, documentTypeFactor |-> 0]

NoResult == [success |-> FALSE, error |-> <<"", "">>]

\* The parts of the state a specification does not exercise.
TermsOff == [pc |-> "off"]
ServiceOff == [pc |-> "off"]
EndpointOff == [pc |-> "off"]
Off == [pc |-> "off"]

\* No component other than the credit evaluation is exercised.
RestOff ==
    /\ auth = Off /\ application = Off /\ cuotas = Off /\ batch = Off
    /\ limiter = Off /\ alerts = Off /\ blob = Off

Init ==
    /\ RestOff
    /\ today \in TodayDates
    /\ tzWest \in BOOLEAN
    /\ \/ missing = {} /\ profile \in Profiles \cup EmptyFieldProfiles
       \/ missing \in MissingSets /\ profile = ExampleProfile
    /\ pc = "idle"
    /\ age = Fin(0)
    /\ scores = NoScores
    /\ overallScore = 0
    /\ result = NoResult
    /\ terms = TermsOff
    /\ service = ServiceOff
    /\ endpoint = EndpointOff

\* The age gate with `>=` for `>`.
ageOutOfRange_Inclusive70(a) == NumLT(a, 18) \/ NumGE(a, 70)

\* The age gate of evaluateCreditProfile: `age < 18 || age > 70`.
ageOutOfRange(a) == NumLT(a, 18) \/ NumGT(a, 70)

\* `approved` with the MEDIUM tier's boundary for 70.
approved_TierAligned(score) == score >= 650

\* `approved`: overallScore >= 70.
approved(score) == score >= 700

\* The periods per month capacidadPago multiplies montoPorPeriodo by.
PeriodsPerMonth(periodoPago) ==
    IF periodoPago = "mensual" THEN 1 ELSE IF periodoPago = "quincenal" THEN 2 ELSE 4

\* The `data` object of a successful response, given the loan details and
\* the three rounded ratios.
EvaluationData(p, a, score, riskLevel, ld, pct, rel, cap) ==
    [solicitante |->
         [nombre |-> p.nombre, edad |-> a, tipoDocumento |-> p.tipoDocumento],
     evaluacion |->
         [puntuacion |-> HalfUp(score, 1),
          nivelRiesgo |-> riskLevel,
          decision |-> IF approved(score) THEN "APROBADO" ELSE "RECHAZADO"],
     prestamo |->
         [tipoSolicitud |-> p.tipoPrestamo,
          montoSolicitado |-> p.montoSolicitado,
          montoAprobado |-> ld.montoAprobado,
          porcentajeAprobacion |-> pct],
     pago |->
         [periodo |-> p.periodoPago,
          numeroPagos |-> ld.periodicidad,
          montoPorPago |-> ld.montoPorPeriodo,
          plazoMeses |-> p.plazoMeses,
          tasaInteresAnual |-> ld.tasaInteresAnual],
     factoresClave |->
         [relacionIngresoGasto |-> rel,
          estabilidadLaboral |-> p.tiempoLaborando,
          capacidadPago |-> cap]]

\* evaluateCreditProfile(profile): validateProfile, the age gate, scoring,
\* the loan details and the response, or the catch block.
EvaluateCreditProfile ==
    /\ pc = "idle"
    /\ IF validateProfile(profile, missing) # ""
       THEN /\ pc' = "threw"
            /\ result' =
                   [success |-> FALSE,
                    error |-> <<"Error en la evaluacion crediticia: Campo requerido faltante: ",
                                validateProfile(profile, missing)>>]
            /\ UNCHANGED <<age, scores, overallScore>>
       ELSE LET a == calculateAge(profile.fechaNacimiento, today, tzWest)
            IN  IF ageOutOfRange(a)
                THEN /\ pc' = "rejected"
                     /\ age' = a
                     /\ result' =
                            [success |-> FALSE,
                             error |-> <<"Edad fuera del rango permitido (18-70). Edad calculada: ",
                                         a.v>>]
                     /\ UNCHANGED <<scores, overallScore>>
                ELSE LET sc == calculateFactorScores(profile, a, evalCriteria)
                         os == calculateOverallScore(sc)
                         riskLevel == determineRiskLevel(os)
                     IN  /\ pc' = "done"
                         /\ age' = a
                         /\ scores' = sc
                         /\ overallScore' = os
                         /\ \E ld \in calculateLoanDetails(os, profile.montoSolicitado,
                                                           profile.periodoPago, riskLevel) :
                            \E pct \in MathRoundDiv(ld.montoAprobado, profile.montoSolicitado) :
                            \E rel \in MathRoundDiv(profile.gastosMensuales * 100,
                                                    profile.ingresosMensuales) :
                            \E cap \in MathRoundDiv(
                                         (profile.ingresosMensuales - profile.gastosMensuales) * 10000,
                                         ld.montoPorPeriodo * PeriodsPerMonth(profile.periodoPago)) :
                                result' = [success |-> TRUE,
                                           data |-> EvaluationData(profile, a, os, riskLevel,
                                                                   ld, pct, rel, cap)]
    /\ UNCHANGED <<profile, missing, today, tzWest, terms, service, endpoint>>
    /\ UNCHANGED restVars

Next == EvaluateCreditProfile

Spec == Init /\ [][Next]_vars

----------------------------------------------------------------------------
(* calculateLoanDetails on its own: every score from 0 to 100 *)

ScoreValues == 0..1000

\* Requested amounts: the ones of the profiles, the validator's minimum and
\* maximum, and amounts whose approved amount or instalment can fall on half
\* a cent.
TermsMontoValues == MontoValues \cup {1000, 1001, 1500, 500000}

InitTerms ==
    /\ RestOff
    /\ terms \in [pc : {"idle"}, score : ScoreValues,
                  montoSolicitado : TermsMontoValues, periodoPago : PeriodoPagoValues]
    /\ profile = ExampleProfile
    /\ missing = {}
    /\ today \in TodayDates
    /\ tzWest = FALSE
    /\ pc = "off"
    /\ age = Fin(0)
    /\ scores = NoScores
    /\ overallScore = 0
    /\ result = NoResult
    /\ service = ServiceOff
    /\ endpoint = EndpointOff

\* calculateLoanDetails(overallScore, montoSolicitado, periodoPago, riskLevel)
\* as evaluateCreditProfile calls it.
CalculateLoanDetails ==
    /\ terms.pc = "idle"
    /\ \E ld \in calculateLoanDetails(terms.score, terms.montoSolicitado,
                                      terms.periodoPago, determineRiskLevel(terms.score)) :
           terms' = [pc |-> "done", score |-> terms.score,
                     montoSolicitado |-> terms.montoSolicitado,
                     periodoPago |-> terms.periodoPago, loanDetails |-> ld]
    /\ UNCHANGED <<profile, missing, today, tzWest, pc, age, scores, overallScore,
                   result, service, endpoint>>
    /\ UNCHANGED restVars

NextTerms == CalculateLoanDetails

SpecTerms == InitTerms /\ [][NextTerms]_vars

----------------------------------------------------------------------------
(* CreditEvaluationService and its ExcelAnalyzerService *)

\* Ratio thresholds are kept in hundredths (0.3 is 30); the loan-to-income
\* thresholds and the months and ages are whole numbers.  The score of an
\* EvaluationResult is kept in hundredths.

\* The criteria the ExcelAnalyzerService constructor installs.
DefaultCriteria ==
    [income_to_debt_ratio |-> [excellent |-> 30, good |-> 40, fair |-> 50, poor |-> 60],
     employment_stability |-> [excellent |-> 36, good |-> 24, fair |-> 12, poor |-> 6],
     loan_to_income_ratio |-> [excellent |-> 3, good |-> 4, fair |-> 5, poor |-> 6],
     age_factors |-> [min_age |-> 18, max_age |-> 70, optimal_min |-> 25, optimal_max |-> 55]]

\* Groups a request's customCriteria may carry.
CustomGroupValues ==
    [employment_stability |-> [excellent |-> 60, good |-> 48, fair |-> 36, poor |-> 24],
     age_factors |-> [min_age |-> 21, max_age |-> 65, optimal_min |-> 30, optimal_max |-> 50]]

\* A Partial<CreditEvaluationCriteria> holding the groups named.
CustomCriteria(groups) == [g \in groups |-> CustomGroupValues[g]]

LoanProfiles ==
    [nombre : {"Ana Ruiz"},
     tipo_documento : {"cedula", "pasaporte"},
     fecha_nacimiento : {<<2004, 6, 15>>, <<1990, 6, 15>>, <<1956, 6, 15>>},
     monto_solicitado : {36000, 60000},
     plazo_meses : {24},
     salario_mensual : {1000},
     gastos_mensuales : {250, 450},
     tiempo_laborando : {6, 30, 48}]

MaxCalls == 3

\* CreditEvaluationRequest without includeDetailedAnalysis.  customGroups
\* names the groups of customCriteria; hasCustomCriteria is FALSE when the
\* request has no customCriteria at all.
Requests ==
    {r \in [profile : LoanProfiles,
            hasCustomCriteria : BOOLEAN,
            customGroups : SUBSET DOMAIN CustomGroupValues] :
        ~r.hasCustomCriteria => r.customGroups = {}}

\* updateCriteria: this.criteria = { ...this.criteria, ...newCriteria }.
updateCriteria(criteria, newCriteria) ==
    [g \in DOMAIN criteria \cup DOMAIN newCriteria |->
        IF g \in DOMAIN newCriteria THEN newCriteria[g] ELSE criteria[g]]

\* ratio <= t for ratio = num / den and t in units of 1 / scale; a quotient
\* by 0 is NaN or Infinity and compares false.
QuotientLE(num, den, t, scale) == den > 0 /\ scale * num <= t * den

calculateIncomeDebtScore(criteria, gastos, salario) ==
    IF QuotientLE(gastos, salario, criteria.income_to_debt_ratio.excellent, 100) THEN 100
    ELSE IF QuotientLE(gastos, salario, criteria.income_to_debt_ratio.good, 100) THEN 80
    ELSE IF QuotientLE(gastos, salario, criteria.income_to_debt_ratio.fair, 100) THEN 60
    ELSE IF QuotientLE(gastos, salario, criteria.income_to_debt_ratio.poor, 100) THEN 40
    ELSE 20

calculateEmploymentScore(criteria, months) ==
    IF months >= criteria.employment_stability.excellent THEN 100
    ELSE IF months >= criteria.employment_stability.good THEN 80
    ELSE IF months >= criteria.employment_stability.fair THEN 60
    ELSE IF months >= criteria.employment_stability.poor THEN 40
    ELSE 20

calculateLoanIncomeScore(criteria, monto, annualIncome) ==
    IF QuotientLE(monto, annualIncome, criteria.loan_to_income_ratio.excellent, 1) THEN 100
    ELSE IF QuotientLE(monto, annualIncome, criteria.loan_to_income_ratio.good, 1) THEN 80
    ELSE IF QuotientLE(monto, annualIncome, criteria.loan_to_income_ratio.fair, 1) THEN 60
    ELSE IF QuotientLE(monto, annualIncome, criteria.loan_to_income_ratio.poor, 1) THEN 40
    ELSE 20

calculateAgeScore(criteria, a) ==
    IF a < criteria.age_factors.min_age \/ a > criteria.age_factors.max_age THEN 0
    ELSE IF a >= criteria.age_factors.optimal_min /\ a <= criteria.age_factors.optimal_max
    THEN 100
    ELSE IF a < criteria.age_factors.optimal_min
    THEN Max(60, 100 - (criteria.age_factors.optimal_min - a) * 5)
    ELSE Max(60, 100 - (a - criteria.age_factors.optimal_max) * 3)

calculateDocumentTypeScore(documentType) ==
    LET t == ToLowerCase(documentType)
    IN  IF t = "cedula" THEN 100
        ELSE IF t = "pasaporte" THEN 90
        ELSE IF t = "licencia" THEN 80
        ELSE 60

\* determineRiskAndApproval, on the unrounded total in hundredths.
determineRiskAndApproval(score) ==
    IF score >= 8000 THEN [risk_level |-> "LOW", approved |-> TRUE]
    ELSE IF score >= 6500 THEN [risk_level |-> "MEDIUM", approved |-> TRUE]
    ELSE IF score >= 5000 THEN [risk_level |-> "HIGH", approved |-> FALSE]
    ELSE [risk_level |-> "VERY_HIGH", approved |-> FALSE]

generateRecommendations(factors, p) ==
    LET recommendations ==
            (IF factors.income_debt_ratio < 60
             THEN <<"Consider reducing monthly expenses or increasing income before applying">>
             ELSE <<>>)
            \o (IF factors.employment_stability < 60
                THEN <<"Employment stability is a concern. Consider waiting until you have more job tenure">>
                ELSE <<>>)
            \o (IF factors.loan_income_ratio < 60
                THEN <<"Requested loan amount is high relative to income. Consider a smaller loan amount">>
                ELSE <<>>)
            \o (IF factors.age_factor < 80
                THEN <<"Age factor may affect loan terms. Consider shorter loan periods">>
                ELSE <<>>)
            \o (IF p.plazo_meses > 60
                THEN <<"Consider a shorter loan term to reduce total interest paid">>
                ELSE <<>>)
    IN  IF Len(recommendations) = 0
        THEN <<"Profile meets all criteria for loan approval">>
        ELSE recommendations

\* ExcelAnalyzerService.evaluateProfile under the criteria the analyzer holds.
\* The age is the difference of the calendar years.  The weighted total is
\* kept in hundredths: the double sum of the five products compares with 80,
\* 65 and 50, and rounds to two decimals, as the exact sum does.
evaluateProfile(criteria, p, now) ==
    LET a == now[1] - ParseDate(p.fecha_nacimiento)[1]
        factors ==
            [income_debt_ratio |->
                 calculateIncomeDebtScore(criteria, p.gastos_mensuales, p.salario_mensual),
             employment_stability |-> calculateEmploymentScore(criteria, p.tiempo_laborando),
             loan_income_ratio |->
                 calculateLoanIncomeScore(criteria, p.monto_solicitado, p.salario_mensual * 12),
             age_factor |-> calculateAgeScore(criteria, a),
             document_type_factor |-> calculateDocumentTypeScore(p.tipo_documento)]
        total == 30 * factors.income_debt_ratio + 25 * factors.employment_stability
                     + 25 * factors.loan_income_ratio + 15 * factors.age_factor
                     + 5 * factors.document_type_factor
    IN  [score |-> total,
         risk_level |-> determineRiskAndApproval(total).risk_level,
         approved |-> determineRiskAndApproval(total).approved,
         factors |-> factors,
         recommendations |-> generateRecommendations(factors, p)]

\* A CreditEvaluationService just constructed; request and result are those
\* of the latest call, and calls = 0 says there was none.
NewService ==
    [pc |-> "ready",
     criteria |-> DefaultCriteria,
     calls |-> 0,
     request |-> [profile |-> CHOOSE p \in LoanProfiles : TRUE,
                  hasCustomCriteria |-> FALSE, customGroups |-> {}],
     result |-> [score |-> 0, risk_level |-> "", approved |-> FALSE,
                 factors |-> [income_debt_ratio |-> 0, employment_stability |-> 0,
                              loan_income_ratio |-> 0, age_factor |-> 0,
                              document_type_factor |-> 0],
                 recommendations |-> <<>>]]

InitService ==
    /\ RestOff
    /\ service = NewService
    /\ today \in TodayDates
    /\ tzWest = FALSE
    /\ profile = ExampleProfile
    /\ missing = {}
    /\ pc = "off"
    /\ age = Fin(0)
    /\ scores = NoScores
    /\ overallScore = 0
    /\ result = NoResult
    /\ terms = TermsOff
    /\ endpoint = EndpointOff

\* evaluateCredit(request): updateCriteria when the request has
\* customCriteria, then evaluateProfile under the analyzer's criteria.
EvaluateCredit ==
    /\ service.pc = "ready"
    /\ service.calls < MaxCalls
    /\ \E request \in Requests :
           LET criteria ==
                   IF request.hasCustomCriteria
                   THEN updateCriteria(service.criteria, CustomCriteria(request.customGroups))
                   ELSE service.criteria
           IN  service' = [pc |-> "ready",
                           criteria |-> criteria,
                           calls |-> service.calls + 1,
                           request |-> request,
                           result |-> evaluateProfile(criteria, request.profile, today)]
    /\ UNCHANGED <<profile, missing, today, tzWest, pc, age, scores, overallScore,
                   result, terms, endpoint>>
    /\ UNCHANGED restVars

NextService == EvaluateCredit

SpecService == InitService /\ [][NextService]_vars

----------------------------------------------------------------------------
(* The credit-evaluation endpoint: CreditEvaluationController.evaluateCredit *)
(* ("api") and WebhookController.evaluateCredit ("webhook")                  *)

\* Texts are pairs <<text, value>>, as the engine's error messages are.

\* Request bodies: profiles that pass the validator (one approved, one
\* rejected on its score, one over the age limit) and profiles that fail it.
EndpointProfiles ==
    {ExampleProfile,
     [ExampleProfile EXCEPT !.gastosMensuales = 650, !.tiempoLaborando = 0,
                            !.montoSolicitado = 84000],
     [ExampleProfile EXCEPT !.fechaNacimiento = <<1953, 1, 15>>],
     [ExampleProfile EXCEPT !.tipoDocumento = "licencia"],
     [ExampleProfile EXCEPT !.montoSolicitado = 500, !.periodoPago = "anual"],
     [ExampleProfile EXCEPT !.nombre = ""]}

\* The fields of the profile the Joi schema rejects (abortEarly is false:
\* all of them are reported).  The names of the model are "" or 2 to 50
\* characters long; a date <<y, m, d>> stands for a string matching
\* ^\d{4}-\d{2}-\d{2}$ when its numbers have that many digits.
InvalidFields(p, miss) ==
    miss \cup
    {f \in FieldNames \ miss :
        CASE f = "nombre" -> p.nombre = ""
          [] f = "tipoDocumento" -> p.tipoDocumento \notin {"cedula", "pasaporte"}
          [] f = "numeroDocumento" -> p.numeroDocumento = ""
          [] f = "fechaNacimiento" ->
                 ~(p.fechaNacimiento[1] \in 0..9999 /\ p.fechaNacimiento[2] \in 0..99
                       /\ p.fechaNacimiento[3] \in 0..99)
          [] f = "tipoPrestamo" ->
                 p.tipoPrestamo \notin {"personal", "vehicular", "hipotecario", "comercial"}
          [] f = "montoSolicitado" -> p.montoSolicitado < 1000 \/ p.montoSolicitado > 500000
          [] f = "plazoMeses" -> p.plazoMeses < 6 \/ p.plazoMeses > 60
          [] f = "periodoPago" -> p.periodoPago \notin {"semanal", "quincenal", "mensual"}
          [] f = "ingresosMensuales" -> p.ingresosMensuales < 0
          [] f = "gastosMensuales" -> p.gastosMensuales < 0
          [] f = "tiempoLaborando" -> p.tiempoLaborando < 0}

NoError == [message |-> <<"", {}>>]

\* validateCreditEvaluationRequest: the Error it throws, NoError when it
\* returns the value.
validateCreditEvaluationRequest(p, miss) ==
    IF InvalidFields(p, miss) # {}
    THEN [message |-> <<"Validation error: ", InvalidFields(p, miss)>>]
    ELSE NoError

\* The Error a rejected webhookLogService.log(...) promise carries.
LogError == [message |-> <<"log failed", {}>>]

NoResponse == [status |-> 0, body |-> [success |-> FALSE]]

\* The response of the try block once the operation is logged.
ResultResponse(res, now) ==
    IF ~res.success
    THEN [status |-> 400,
          body |-> [success |-> FALSE, error |-> res.error, timestamp |-> now]]
    ELSE [status |-> 200,
          body |-> [success |-> TRUE, data |-> res.data, timestamp |-> now]]

\* The 'Validation Error' response of the catch blocks.
ValidationResponse(error, now) ==
    [status |-> 400,
     body |-> [success |-> FALSE, error |-> <<"Validation Error", "">>,
               message |-> error.message, timestamp |-> now]]

\* WebhookController.handleError.
handleError(error, now) ==
    [status |-> 500,
     body |-> [error |-> <<"Internal Server Error", "">>,
               message |-> error.message, timestamp |-> now]]

InitEndpoint ==
    /\ RestOff
    /\ today \in TodayDates
    /\ tzWest \in BOOLEAN
    /\ \/ missing = {} /\ profile \in EndpointProfiles
       \/ missing = {"nombre"} /\ profile = ExampleProfile
    /\ pc = "off"
    /\ age = Fin(0)
    /\ scores = NoScores
    /\ overallScore = 0
    /\ result = NoResult
    /\ terms = TermsOff
    /\ service = ServiceOff
    /\ endpoint \in [pc : {"received"}, controller : {"api", "webhook"},
                     error : {NoError}, logRejected : {0}, response : {NoResponse}]

\* The call of the validator: its value goes to evaluateCreditProfile, its
\* Error to the catch block.
ValidateRequest ==
    /\ endpoint.pc = "received"
    /\ LET error == validateCreditEvaluationRequest(profile, missing)
       IN  IF error = NoError
           THEN /\ endpoint' = [endpoint EXCEPT !.pc = "evaluating"]
                /\ pc' = "idle"
           ELSE /\ endpoint' = [endpoint EXCEPT !.pc = "catch", !.error = error]
                /\ pc' = pc
    /\ UNCHANGED <<profile, missing, today, tzWest, age, scores, overallScore,
                   result, terms, service>>
    /\ UNCHANGED restVars

\* `await this.webhookLogService.log(...)` of the try block and what follows
\* it.  The promise resolves or rejects; a rejection goes to the catch block.
\* WebhookController also awaits logResponse, which swallows a rejection of
\* its own log call, before it answers.
LogOperation ==
    /\ endpoint.pc = "evaluating"
    /\ pc \in {"threw", "rejected", "done"}
    /\ \E logOk \in BOOLEAN :
          IF logOk
          THEN \E logResponseOk \in IF endpoint.controller = "webhook" THEN BOOLEAN ELSE {TRUE} :
                   endpoint' = [endpoint EXCEPT
                                   !.pc = "responded",
                                   !.logRejected = @ + (IF logResponseOk THEN 0 ELSE 1),
                                   !.response = ResultResponse(result, today)]
          ELSE endpoint' = [endpoint EXCEPT !.pc = "catch", !.error = LogError,
                                            !.logRejected = @ + 1]
    /\ UNCHANGED <<profile, missing, today, tzWest, pc, age, scores, overallScore,
                   result, terms, service>>
    /\ UNCHANGED restVars

\* The catch blocks.  CreditEvaluationController logs and answers
\* 'Validation Error' for every error.  WebhookController answers 'Validation
\* Error' (after logResponse) for a message starting with 'Validation error:'
\* and otherwise logs and calls handleError.  A rejection of the awaited log
\* call leaves the catch block: the handler's promise rejects and no
\* response is sent.
CatchError ==
    /\ endpoint.pc = "catch"
    /\ IF endpoint.controller = "webhook" /\ endpoint.error.message[1] = "Validation error: "
       THEN \E logResponseOk \in BOOLEAN :
               endpoint' = [endpoint EXCEPT
                               !.pc = "responded",
                               !.logRejected = @ + (IF logResponseOk THEN 0 ELSE 1),
                               !.response = ValidationResponse(endpoint.error, today)]
       ELSE \E logOk \in BOOLEAN :
               IF ~logOk
               THEN endpoint' = [endpoint EXCEPT !.pc = "unanswered",
                                                 !.logRejected = @ + 1]
               ELSE IF endpoint.controller = "api"
               THEN endpoint' = [endpoint EXCEPT
                                    !.pc = "responded",
                                    !.response = ValidationResponse(endpoint.error, today)]
               ELSE \E logResponseOk \in BOOLEAN :
                        endpoint' = [endpoint EXCEPT
                                        !.pc = "responded",
                                        !.logRejected = @ + (IF logResponseOk THEN 0 ELSE 1),
                                        !.response = handleError(endpoint.error, today)]
    /\ UNCHANGED <<profile, missing, today, tzWest, pc, age, scores, overallScore,
                   result, terms, service>>
    /\ UNCHANGED restVars

NextEndpoint ==
    \/ ValidateRequest
    \/ EvaluateCreditProfile
    \/ LogOperation
    \/ CatchError

SpecEndpoint == InitEndpoint /\ [][NextEndpoint]_vars

----------------------------------------------------------------------------
(* The webhook router: rate limiter, AuthMiddleware.authenticate, handler *)

\* Everything but the component named is left alone.
CreditOff ==
    /\ profile = ExampleProfile
    /\ missing = {}
    /\ today \in TodayDates
    /\ tzWest = FALSE
    /\ pc = "off"
    /\ age = Fin(0)
    /\ scores = NoScores
    /\ overallScore = 0
    /\ result = NoResult
    /\ terms = TermsOff
    /\ service = ServiceOff
    /\ endpoint = EndpointOff

\* The routes WebhookRoutes.initializeRoutes mounts after router.use(authenticate).
WebhookRouterRoutes ==
    {"GET /credito/:numCredito", "GET /cliente/:clienteId/creditos",
     "GET /creditos/identificacion", "GET /creditos", "POST /credito",
     "POST /loan-decision", "POST /acuerdos-pago",
     "GET /acuerdos-pago/credito/:creditoId", "GET /acuerdos-pago/cliente/:clienteId",
     "GET /health"}

\* config.authKey.
ConfiguredAuthKey == "webhook_secret_key_2025"

\* What req.headers['x-auth-key'] and req.query.authKey can hold: nothing
\* (undefined, or the empty string), a string, or for the query an array
\* (?authKey[]=...).
NoKey == [kind |-> "absent", v |-> ""]
StringKey(k) == [kind |-> "string", v |-> k]
ArrayKey(k) == [kind |-> "array", v |-> k]

HeaderKeys == {NoKey, StringKey(ConfiguredAuthKey), StringKey("wrong")}
QueryKeys == HeaderKeys \cup {ArrayKey(ConfiguredAuthKey)}

\* `header || query`.
suppliedAuthKey(header, query) == IF header.kind # "absent" THEN header ELSE query

\* The key test with `!=` for `!==`: an array of one string compares equal
\* to that string.
keyMatches_Loose(authKey) == authKey.kind # "absent" /\ authKey.v = ConfiguredAuthKey

\* `authKey !== config.authKey` is false.
keyMatches(authKey) == authKey.kind = "string" /\ authKey.v = ConfiguredAuthKey

InitAuth ==
    /\ CreditOff
    /\ auth \in [pc : {"received"}, route : WebhookRouterRoutes,
                 header : HeaderKeys, query : QueryKeys,
                 overLimit : BOOLEAN, status : {0}, handlerInvoked : {FALSE}]
    /\ application = Off /\ cuotas = Off /\ batch = Off
    /\ limiter = Off /\ alerts = Off /\ blob = Off

\* SecurityMiddleware.createRateLimiter(): 429 for a client over its limit,
\* next() otherwise.
RateLimiter ==
    /\ auth.pc = "received"
    /\ auth' = IF auth.overLimit
               THEN [auth EXCEPT !.pc = "responded", !.status = 429]
               ELSE [auth EXCEPT !.pc = "authenticate"]
    /\ UNCHANGED <<creditVars, application, cuotas, batch, limiter, alerts, blob>>

\* AuthMiddleware.authenticate: the awaited webhookLogService.log resolves
\* or rejects; a rejection is answered by the catch block.
Authenticate ==
    /\ auth.pc = "authenticate"
    /\ \E logOk \in BOOLEAN :
          LET authKey == suppliedAuthKey(auth.header, auth.query)
          IN  auth' = IF ~logOk THEN [auth EXCEPT !.pc = "responded", !.status = 500]
                      ELSE IF authKey.kind = "absent" \/ ~keyMatches(authKey)
                      THEN [auth EXCEPT !.pc = "responded", !.status = 401]
                      ELSE [auth EXCEPT !.pc = "next"]
    /\ UNCHANGED <<creditVars, application, cuotas, batch, limiter, alerts, blob>>

\* The route handler, run by next().
RouteHandler ==
    /\ auth.pc = "next"
    /\ auth' = [auth EXCEPT !.pc = "responded", !.status = 200, !.handlerInvoked = TRUE]
    /\ UNCHANGED <<creditVars, application, cuotas, batch, limiter, alerts, blob>>

NextAuth == RateLimiter \/ Authenticate \/ RouteHandler

SpecAuth == InitAuth /\ [][NextAuth]_vars

----------------------------------------------------------------------------
(* AgentRequestUseCase.processLoanDecision: the decision on a loan        *)
(* application, split at its awaits (findById, updateLoanApplication,     *)
(* notifyLoanDecision). Several requests may be in flight at once.        *)

MaxDecisions == 3

Decisions == 1..MaxDecisions

FinalStatuses == {"approved", "rejected"}

\* The row findById finds: absent, or with a status and the user's data.
LoanApplications ==
    {[exists |-> FALSE, status |-> "none", personalData |-> FALSE, userId |-> FALSE]}
    \cup [exists : {TRUE}, status : {"pending"} \cup FinalStatuses,
          personalData : BOOLEAN, userId : BOOLEAN]

NoLoanDecisionResponse == [success |-> FALSE, error |-> "none", status |-> "none"]

LoanDecisionFailure(error) == [success |-> FALSE, error |-> error, status |-> "none"]

LoanDecisionSuccess(status) == [success |-> TRUE, error |-> "none", status |-> status]

decidedStatus(isApproved) == IF isApproved THEN "approved" ELSE "rejected"

\* mutant: the final-state check left out
checkLoanApplication_NoFinalCheck(loanApplication) ==
    IF ~loanApplication.exists THEN "LOAN_APPLICATION_NOT_FOUND"
    ELSE IF ~loanApplication.personalData THEN "USER_DATA_NOT_FOUND"
    ELSE IF ~loanApplication.userId THEN "PHONE_NUMBER_NOT_FOUND"
    ELSE "none"

\* The early returns between findById and updateLoanApplication.
checkLoanApplication(loanApplication) ==
    IF ~loanApplication.exists THEN "LOAN_APPLICATION_NOT_FOUND"
    ELSE IF loanApplication.status \in FinalStatuses THEN "STATUS_IMMUTABLE"
    ELSE IF ~loanApplication.personalData THEN "USER_DATA_NOT_FOUND"
    ELSE IF ~loanApplication.userId THEN "PHONE_NUMBER_NOT_FOUND"
    ELSE "none"

\* mutant: a failed notification reaches the outer catch
decisionAfterNotification_Propagates(isApproved, sent) ==
    IF sent THEN LoanDecisionSuccess(decidedStatus(isApproved))
    ELSE LoanDecisionFailure("N8N_ERROR")

\* The inner try/catch around notifyLoanDecision swallows the failure.
decisionAfterNotification(isApproved, sent) ==
    LoanDecisionSuccess(decidedStatus(isApproved))

IdleDecision ==
    [pc |-> "idle", approved |-> FALSE, read |-> "none", notified |-> "none",
     response |-> NoLoanDecisionResponse]

InitLoan ==
    /\ CreditOff
    /\ application \in [pc : {"loan"}, stored : LoanApplications,
                        calls : {[c \in Decisions |-> IdleDecision]},
                        updates : {<<>>}, notifications : {<<>>}]
    /\ auth = Off
    /\ cuotas = Off
    /\ batch = Off
    /\ limiter = Off
    /\ alerts = Off
    /\ blob = Off

OthersAtRest(c) ==
    \A d \in Decisions \ {c} : application.calls[d].pc \in {"idle", "done"}

\* await findById, then the synchronous checks on what it returned.
FindById(c) ==
    /\ application.pc = "loan"
    /\ application.calls[c].pc = "idle"
    /\ \E isApproved \in BOOLEAN, found \in BOOLEAN :
        LET loanApplication == application.stored
            error == checkLoanApplication(loanApplication)
            call == [application.calls[c] EXCEPT
                        !.approved = isApproved, !.read = loanApplication.status]
        IN application' = [application EXCEPT !.calls[c] =
              IF ~found
                THEN [call EXCEPT !.pc = "done", !.read = "none",
                                  !.response = LoanDecisionFailure("DB_ERROR")]
              ELSE IF error # "none"
                THEN [call EXCEPT !.pc = "done",
                                  !.response = LoanDecisionFailure(error)]
              ELSE [call EXCEPT !.pc = "update"]]
    /\ UNCHANGED <<creditVars, auth, cuotas, batch, limiter, alerts, blob>>

\* await updateLoanApplication: the row takes the decided status, or the
\* repository rejects and the outer catch answers.
UpdateLoanApplication(c) ==
    /\ application.pc = "loan"
    /\ application.calls[c].pc = "update"
    /\ \E written \in BOOLEAN :
        LET status == decidedStatus(application.calls[c].approved)
        IN application' =
            IF written
              THEN [application EXCEPT
                      !.stored.status = status,
                      !.updates = Append(@, [call |-> c, from |-> application.stored.status,
                                             status |-> status]),
                      !.calls[c].pc = "notify"]
              ELSE [application EXCEPT
                      !.calls[c].pc = "done",
                      !.calls[c].response = LoanDecisionFailure("DB_ERROR")]
    /\ UNCHANGED <<creditVars, auth, cuotas, batch, limiter, alerts, blob>>

\* await notifyLoanDecision inside its own try/catch, then the answer.
NotifyLoanDecision(c) ==
    /\ application.pc = "loan"
    /\ application.calls[c].pc = "notify"
    /\ \E sent \in BOOLEAN :
        LET isApproved == application.calls[c].approved
        IN application' = [application EXCEPT
              !.notifications = IF sent
                  THEN Append(@, [call |-> c,
                                  resultado |-> IF isApproved THEN "aprobado" ELSE "rechazado"])
                  ELSE @,
              !.calls[c].notified = IF sent THEN "sent" ELSE "failed",
              !.calls[c].pc = "done",
              !.calls[c].response = decisionAfterNotification(isApproved, sent)]
    /\ UNCHANGED <<creditVars, auth, cuotas, batch, limiter, alerts, blob>>

\* Requests in flight together: the awaits of one interleave with the other's.
NextLoan ==
    \E c \in Decisions :
        \/ FindById(c)
        \/ UpdateLoanApplication(c)
        \/ NotifyLoanDecision(c)

SpecLoan == InitLoan /\ [][NextLoan]_vars

\* One decision after the other: a request starts when no other is in flight.
NextLoanSequential ==
    \E c \in Decisions :
        \/ OthersAtRest(c) /\ FindById(c)
        \/ UpdateLoanApplication(c)
        \/ NotifyLoanDecision(c)

SpecLoanSequential == InitLoan /\ [][NextLoanSequential]_vars

----------------------------------------------------------------------------
(* CreditoAtrasadoUseCase.mapToResponseWithCuotas and                      *)
(* calcularRangoCuotasDinamico: the range of instalments offered for an    *)
(* amount owed. Amounts are in cents; Number(...) of a missing column is   *)
(* NaN. The while loop runs one iteration per step.                        *)

MaxMontoBaseK == 12

MontoMinimoCuota == 50000

NaNMonto == [nan |-> TRUE, cents |-> 0]

Monto(c) == [nan |-> FALSE, cents |-> c]

MontoBaseValues ==
    {NaNMonto}
    \cup {Monto(k * 25000) : k \in (-1)..MaxMontoBaseK}
    \cup {Monto(c) : c \in {-1, 1, 49999, 50001, 99999, 249999, 299999, 999999,
                            1000000, 1000001, 1500050, 4999999, 5000000, 5000001,
                            12000000, 19999999, 20000000, 20000001, 90000000}}

\* mutant: the tier boundaries taken on the other side
initialRange_OtherSide(montoBase) ==
    IF montoBase.nan THEN [minCuotas |-> 1, maxCuotas |-> 1]
    ELSE IF montoBase.cents <= 1000000 THEN [minCuotas |-> 1, maxCuotas |-> 6]
    ELSE IF montoBase.cents < 5000000 THEN [minCuotas |-> 3, maxCuotas |-> 12]
    ELSE IF montoBase.cents < 20000000 THEN [minCuotas |-> 6, maxCuotas |-> 24]
    ELSE [minCuotas |-> 12, maxCuotas |-> 36]

\* The if / else-if chain; every comparison with NaN is false.
initialRange(montoBase) ==
    IF montoBase.nan THEN [minCuotas |-> 1, maxCuotas |-> 1]
    ELSE IF montoBase.cents < 1000000 THEN [minCuotas |-> 1, maxCuotas |-> 6]
    ELSE IF montoBase.cents >= 1000000 /\ montoBase.cents <= 5000000
        THEN [minCuotas |-> 3, maxCuotas |-> 12]
    ELSE IF montoBase.cents > 5000000 /\ montoBase.cents <= 20000000
        THEN [minCuotas |-> 6, maxCuotas |-> 24]
    ELSE IF montoBase.cents > 20000000 THEN [minCuotas |-> 12, maxCuotas |-> 36]
    ELSE [minCuotas |-> 1, maxCuotas |-> 1]

\* mutant: an instalment of exactly the minimum counted as too small
quotaTooSmall_Inclusive(montoBase, maxCuotas) ==
    ~montoBase.nan /\ montoBase.cents <= MontoMinimoCuota * maxCuotas

\* montoBase / maxCuotas < montoMinimoCuota, for maxCuotas >= 1
quotaTooSmall(montoBase, maxCuotas) ==
    ~montoBase.nan /\ montoBase.cents < MontoMinimoCuota * maxCuotas

NoCuotas == [min |-> 0, max |-> 0, cantidad |-> 0]

InitCuotas ==
    /\ CreditOff
    /\ cuotas \in [pc : {"call"}, montoBase : MontoBaseValues, cantidad : {0, 12},
                   minCuotas : {1}, maxCuotas : {1}, iterations : {0},
                   response : {NoCuotas}]
    /\ auth = Off
    /\ application = Off
    /\ batch = Off
    /\ limiter = Off
    /\ alerts = Off
    /\ blob = Off

\* The initial range based on the amount.
AssignRange ==
    /\ cuotas.pc = "call"
    /\ LET range == initialRange(cuotas.montoBase)
       IN cuotas' = [cuotas EXCEPT !.pc = "adjust",
                                   !.minCuotas = range.minCuotas,
                                   !.maxCuotas = range.maxCuotas]
    /\ UNCHANGED <<creditVars, auth, application, batch, limiter, alerts, blob>>

\* One iteration of the while loop.
DecrementMaxCuotas ==
    /\ cuotas.pc = "adjust"
    /\ quotaTooSmall(cuotas.montoBase, cuotas.maxCuotas)
    /\ cuotas.maxCuotas > cuotas.minCuotas
    /\ cuotas' = [cuotas EXCEPT !.maxCuotas = @ - 1, !.iterations = @ + 1]
    /\ UNCHANGED <<creditVars, auth, application, batch, limiter, alerts, blob>>

\* The loop's exit, the return, and the response built around it.
ReturnRange ==
    /\ cuotas.pc = "adjust"
    /\ ~(quotaTooSmall(cuotas.montoBase, cuotas.maxCuotas)
         /\ cuotas.maxCuotas > cuotas.minCuotas)
    /\ cuotas' = [cuotas EXCEPT !.pc = "done",
                    !.response = [min |-> cuotas.minCuotas, max |-> cuotas.maxCuotas,
                                  cantidad |-> cuotas.cantidad]]
    /\ UNCHANGED <<creditVars, auth, application, batch, limiter, alerts, blob>>

NextCuotas == AssignRange \/ DecrementMaxCuotas \/ ReturnRange

SpecCuotas == InitCuotas /\ [][NextCuotas]_vars

\* The call is synchronous: once started it runs to its return.
SpecCuotasFair == SpecCuotas /\ WF_vars(NextCuotas)

----------------------------------------------------------------------------
(* CreditEvaluationService.evaluateMultipleProfiles: the for loop over the *)
(* profiles, one await of evaluateCredit per iteration. A profile whose     *)
(* tipo_documento is missing makes evaluateProfile throw (toLowerCase of    *)
(* undefined); evaluateCredit rethrows it.                                  *)

MaxBatch == 3

\* The entries of a batch: whether tipo_documento is there, and the profile.
BatchProfiles ==
    [hasTipoDocumento : BOOLEAN,
     profile : {p \in LoanProfiles :
                   /\ p.tipo_documento = "cedula"
                   /\ p.fecha_nacimiento = <<1990, 6, 15>>
                   /\ p.monto_solicitado = 36000
                   /\ p.tiempo_laborando = 48}]

Batches == UNION {[1..n -> BatchProfiles] : n \in 0..MaxBatch}

\* The result pushed for a profile whose evaluation threw.
FailedEvaluation ==
    [score |-> 0, risk_level |-> "VERY_HIGH", approved |-> FALSE,
     factors |-> [income_debt_ratio |-> 0, employment_stability |-> 0,
                  loan_income_ratio |-> 0, age_factor |-> 0,
                  document_type_factor |-> 0],
     recommendations |-> <<"Evaluation failed - please review application manually">>]

\* mutant: nothing pushed for a profile whose evaluation threw
pushEvaluation_SkipFailed(results, entry, now) ==
    IF entry.hasTipoDocumento
    THEN Append(results, evaluateProfile(DefaultCriteria, entry.profile, now))
    ELSE results

\* The body of the loop: the result of evaluateCredit, or in the catch the
\* failed result.
pushEvaluation(results, entry, now) ==
    IF entry.hasTipoDocumento
    THEN Append(results, evaluateProfile(DefaultCriteria, entry.profile, now))
    ELSE Append(results, FailedEvaluation)

InitBatch ==
    /\ CreditOff
    /\ batch \in [pc : {"loop"}, profiles : Batches, next : {1}, results : {<<>>},
                  returned : {<<>>}]
    /\ auth = Off
    /\ application = Off
    /\ cuotas = Off
    /\ limiter = Off
    /\ alerts = Off
    /\ blob = Off

\* One iteration of for (const profile of profiles).
EvaluateNextProfile ==
    /\ batch.pc = "loop"
    /\ batch.next <= Len(batch.profiles)
    /\ batch' = [batch EXCEPT
                    !.results = pushEvaluation(@, batch.profiles[batch.next], today),
                    !.next = @ + 1]
    /\ UNCHANGED <<creditVars, auth, application, cuotas, limiter, alerts, blob>>

\* return results
ReturnResults ==
    /\ batch.pc = "loop"
    /\ batch.next > Len(batch.profiles)
    /\ batch' = [batch EXCEPT !.pc = "done", !.returned = batch.results]
    /\ UNCHANGED <<creditVars, auth, application, cuotas, limiter, alerts, blob>>

NextBatch == EvaluateNextProfile \/ ReturnResults

SpecBatch == InitBatch /\ [][NextBatch]_vars

----------------------------------------------------------------------------
(* SentryLogService.log up to its rate limiter: shouldSkipLogging, then    *)
(* isRateLimited on the map logRateLimit (key `${ip}-${endpoint}`, value   *)
(* the time of the latest call let through). Times are in milliseconds.    *)

MaxLogCalls == 12

MaxEndpoints == 11

\* The readings of Date.now(): two of them in one window, the third more
\* than a window after the first.
ClockTimes == {0, 40000, 80000}

rateLimitWindow == 60000

maxLogsPerWindow == 10

LogIps == {"10.0.0.1", "10.0.0.2"}

\* Endpoint e stands for the path "/e<e>"; the second address calls one path.
LogEndpoints(ip) == IF ip = "10.0.0.1" THEN 1..MaxEndpoints ELSE 1..1

LogKeys == {[ip |-> ip, endpoint |-> e] : ip \in LogIps, e \in 1..MaxEndpoints}

\* A key the map does not hold has the value Absent.
Absent == -1

\* The entries older than the window deleted.
withoutOldEntries(logRateLimit, now) ==
    [k \in LogKeys |->
        IF logRateLimit[k] # Absent /\ logRateLimit[k] < now - rateLimitWindow
        THEN Absent ELSE logRateLimit[k]]

\* The entries of the map whose key starts with `${ip}-`.
logsInWindow(logRateLimit, ip) ==
    Cardinality({k \in LogKeys : k.ip = ip /\ logRateLimit[k] # Absent})

\* isRateLimited: the answer and the map it leaves.
isRateLimited(logRateLimit, ip, e, now) ==
    LET cleaned == withoutOldEntries(logRateLimit, now)
    IN IF logsInWindow(cleaned, ip) >= maxLogsPerWindow
       THEN [limited |-> TRUE, logRateLimit |-> cleaned]
       ELSE [limited |-> FALSE,
             logRateLimit |-> [cleaned EXCEPT ![[ip |-> ip, endpoint |-> e]] = now]]

\* The paths a caller names, up to renaming: the last one the map holds
\* for this address (a path called again), or the first one it does not
\* hold (a path not called within the window).
NamedEndpoints(logRateLimit, ip) ==
    LET held == {e \in LogEndpoints(ip) : logRateLimit[[ip |-> ip, endpoint |-> e]] # Absent}
    IN {e \in LogEndpoints(ip) :
            \/ e \in held /\ \A d \in held : d <= e
            \/ e \notin held /\ \A d \in LogEndpoints(ip) \ held : e <= d}

\* The calls let through so far, all addresses together.
LoggedCalls == Len(limiter.through["10.0.0.1"]) + Len(limiter.through["10.0.0.2"])

InitLimiter ==
    /\ CreditOff
    /\ limiter = [pc |-> "log", now |-> 0,
                  logRateLimit |-> [k \in LogKeys |-> Absent],
                  through |-> [ip \in LogIps |-> <<>>]]
    /\ auth = Off
    /\ application = Off
    /\ cuotas = Off
    /\ batch = Off
    /\ alerts = Off
    /\ blob = Off

\* log(data): skipped for a low-priority endpoint ('/health', '/ping', ...),
\* else rate limited or let through.
Log ==
    /\ limiter.pc = "log"
    /\ LoggedCalls < MaxLogCalls
    /\ \E ip \in LogIps, lowPriority \in BOOLEAN :
        \E e \in NamedEndpoints(limiter.logRateLimit, ip) :
            LET r == isRateLimited(limiter.logRateLimit, ip, e, limiter.now)
            IN limiter' =
                IF lowPriority THEN limiter
                ELSE [limiter EXCEPT
                        !.logRateLimit = r.logRateLimit,
                        !.through[ip] = IF r.limited THEN @ ELSE Append(@, limiter.now)]
    /\ UNCHANGED <<creditVars, auth, application, cuotas, batch, alerts, blob>>

\* Date.now() moves on.
Tick ==
    /\ limiter.pc = "log"
    /\ \E t \in ClockTimes :
        /\ t > limiter.now
        /\ \A u \in ClockTimes : u > limiter.now => t <= u
        /\ limiter' = [limiter EXCEPT !.now = t]
    /\ UNCHANGED <<creditVars, auth, application, cuotas, batch, alerts, blob>>

NextLimiter == Log \/ Tick

SpecLimiter == InitLimiter /\ [][NextLimiter]_vars

----------------------------------------------------------------------------
(* SentryAlertsManager.shouldTriggerAlert under defaultAlertsConfig, for   *)
(* the alert types SentryLogService asks about. The counters of different  *)
(* alert types have different keys; a behaviour follows one alert type,    *)
(* enabled or disabled. Times are in milliseconds.                         *)

MaxOverThreshold == 1

MsPerMinute == 60 * 1000

\* defaultAlertsConfig.thresholds
DefaultThresholds ==
    [criticalErrors |-> [level |-> "fatal", count |-> 1, timeWindow |-> 1, enabled |-> TRUE],
     authenticationFailures |->
         [level |-> "warning", count |-> 10, timeWindow |-> 5, enabled |-> TRUE],
     businessCriticalOperations |->
         [level |-> "error", count |-> 3, timeWindow |-> 10, enabled |-> TRUE],
     rateLimitExceeded |->
         [level |-> "warning", count |-> 50, timeWindow |-> 15, enabled |-> TRUE]]

\* The alert types shouldTriggerAlert is called with.
AlertTypes == {"criticalErrors", "authenticationFailures", "businessCriticalOperations"}

AlertLevels == {"warning", "error", "fatal"}

\* The readings of Date.now(), in minutes: at and just after the edge of the
\* 5 and 10 minute windows, and more than an hour later.
AlertClockMinutes == {0, 5, 6, 10, 11, 71}

NoCounter == [present |-> FALSE, count |-> 0, windowStart |-> 0]

Counter(count, windowStart) == [present |-> TRUE, count |-> count, windowStart |-> windowStart]

\* !counter || (now - counter.windowStart) > windowMs
windowExpired(counter, now, threshold) ==
    \/ ~counter.present
    \/ now - counter.windowStart > threshold.timeWindow * MsPerMinute

\* mutant: the alert held back until the threshold is exceeded
thresholdReached_Exceeded(count, threshold) == count > threshold.count

\* counter.count >= threshold.count
thresholdReached(count, threshold) == count >= threshold.count

\* shouldTriggerAlert: the value returned and the counter it leaves.
shouldTriggerAlert(threshold, level, counter, now) ==
    IF ~threshold.enabled \/ threshold.level # level
    THEN [returned |-> FALSE, counter |-> counter]
    ELSE LET opened == IF windowExpired(counter, now, threshold)
                       THEN Counter(0, now) ELSE counter
             count == opened.count + 1
         IN IF thresholdReached(count, threshold)
            THEN [returned |-> TRUE, counter |-> Counter(0, now)]
            ELSE [returned |-> FALSE, counter |-> Counter(count, opened.windowStart)]

InitAlerts ==
    /\ CreditOff
    /\ \E alertType \in AlertTypes, enabled \in BOOLEAN :
        alerts = [pc |-> "alerts", alertType |-> alertType,
                  threshold |-> [DefaultThresholds[alertType] EXCEPT !.enabled = enabled],
                  now |-> 0, counter |-> NoCounter, history |-> <<>>,
                  level |-> "none", returned |-> FALSE, calls |-> 0]
    /\ auth = Off
    /\ application = Off
    /\ cuotas = Off
    /\ batch = Off
    /\ limiter = Off
    /\ blob = Off

\* shouldTriggerAlert(alertType, level); history keeps the calls whose level
\* is the threshold's, on an enabled threshold, and calls the parity of the
\* number of calls.
ShouldTriggerAlert ==
    /\ alerts.pc = "alerts"
    /\ Len(alerts.history) < alerts.threshold.count + MaxOverThreshold
    /\ \E level \in AlertLevels :
        LET r == shouldTriggerAlert(alerts.threshold, level, alerts.counter, alerts.now)
            matching == alerts.threshold.enabled /\ alerts.threshold.level = level
        IN alerts' = [alerts EXCEPT
              !.counter = r.counter,
              !.level = level,
              !.returned = r.returned,
              !.calls = (@ + 1) % 2,
              !.history = IF matching
                          THEN Append(@, [time |-> alerts.now, returned |-> r.returned])
                          ELSE @]
    /\ UNCHANGED <<creditVars, auth, application, cuotas, batch, limiter, blob>>

\* Date.now() moves on.
AlertsTick ==
    /\ alerts.pc = "alerts"
    /\ \E m \in AlertClockMinutes :
        /\ m * MsPerMinute > alerts.now
        /\ \A n \in AlertClockMinutes : n * MsPerMinute > alerts.now => m <= n
        /\ alerts' = [alerts EXCEPT !.now = m * MsPerMinute]
    /\ UNCHANGED <<creditVars, auth, application, cuotas, batch, limiter, blob>>

\* The hourly cleanupOldCounters: counters older than an hour are deleted.
CleanupOldCounters ==
    /\ alerts.pc = "alerts"
    /\ alerts.counter.present
    /\ alerts' = [alerts EXCEPT !.counter =
          IF alerts.now - alerts.counter.windowStart > 60 * MsPerMinute
          THEN NoCounter ELSE @]
    /\ UNCHANGED <<creditVars, auth, application, cuotas, batch, limiter, blob>>

NextAlerts == ShouldTriggerAlert \/ AlertsTick \/ CleanupOldCounters

SpecAlerts == InitAlerts /\ [][NextAlerts]_vars

----------------------------------------------------------------------------
(* AzureBlobStorageService.getBlob and getBlobMetadata up to the path they *)
(* hand to the container client, with sanitizeBlobPath. A string is a      *)
(* sequence of characters: "a" stands for a letter or digit, " " for white *)
(* space, "*" for a character outside the allowed pattern.                 *)

MaxPathLen == 4

PathChars == {".", "/", " ", "a", "*"}

BlobPaths == UNION {[1..n -> PathChars] : n \in 0..MaxPathLen}

\* .replace(/\.\./g, ''): the matches are taken from left to right and do
\* not overlap.
RECURSIVE removeDotDot(_)
removeDotDot(s) ==
    IF Len(s) = 0 THEN <<>>
    ELSE IF Len(s) >= 2 /\ s[1] = "." /\ s[2] = "."
        THEN removeDotDot(SubSeq(s, 3, Len(s)))
    ELSE <<s[1]>> \o removeDotDot(Tail(s))

\* .replace(/\/+/g, '/')
RECURSIVE collapseSlashes(_)
collapseSlashes(s) ==
    IF Len(s) = 0 THEN <<>>
    ELSE IF Len(s) >= 2 /\ s[1] = "/" /\ s[2] = "/"
        THEN collapseSlashes(Tail(s))
    ELSE <<s[1]>> \o collapseSlashes(Tail(s))

\* .replace(/^\//, '')
removeLeadingSlash(s) == IF Len(s) > 0 /\ s[1] = "/" THEN Tail(s) ELSE s

RECURSIVE trimStart(_)
trimStart(s) == IF Len(s) > 0 /\ s[1] = " " THEN trimStart(Tail(s)) ELSE s

RECURSIVE trimEnd(_)
trimEnd(s) ==
    IF Len(s) > 0 /\ s[Len(s)] = " " THEN trimEnd(SubSeq(s, 1, Len(s) - 1)) ELSE s

\* .trim()
trim(s) == trimEnd(trimStart(s))

\* /^[a-zA-Z0-9\-_\/\.]+$/.test(s)
allowedPattern(s) == Len(s) > 0 /\ \A i \in 1..Len(s) : s[i] \in {"a", "/", "."}

\* sanitizeBlobPath: the path returned, or the error thrown.
sanitizeBlobPath(blobPath) ==
    IF Len(blobPath) = 0 THEN [thrown |-> "Invalid blob path", path |-> <<>>]
    ELSE LET sanitized == trim(removeLeadingSlash(collapseSlashes(removeDotDot(blobPath))))
         IN IF ~allowedPattern(sanitized)
            THEN [thrown |-> "Invalid characters in blob path", path |-> <<>>]
            ELSE IF Len(sanitized) = 0
            THEN [thrown |-> "Empty blob path after sanitization", path |-> <<>>]
            ELSE [thrown |-> "none", path |-> sanitized]

InitBlob ==
    /\ CreditOff
    /\ blob \in [pc : {"getBlob", "getBlobMetadata"}, blobPath : BlobPaths,
                 containerClient : BOOLEAN, handed : {FALSE}, path : {<<>>},
                 outcome : {"none"}]
    /\ auth = Off
    /\ application = Off
    /\ cuotas = Off
    /\ batch = Off
    /\ limiter = Off
    /\ alerts = Off

\* getBlob up to getBlobClient(sanitizedPath): the path is sanitized first,
\* then the client is looked for.
GetBlob ==
    /\ blob.pc = "getBlob"
    /\ LET r == sanitizeBlobPath(blob.blobPath)
       IN blob' =
            IF r.thrown # "none"
              THEN [blob EXCEPT !.pc = "done", !.outcome = r.thrown]
            ELSE IF ~blob.containerClient
              THEN [blob EXCEPT !.pc = "done",
                                !.outcome = "Azure Blob Storage client not initialized"]
            ELSE [blob EXCEPT !.pc = "client", !.handed = TRUE, !.path = r.path]
    /\ UNCHANGED <<creditVars, auth, application, cuotas, batch, limiter, alerts>>

\* getBlobMetadata up to getBlobClient(sanitizedPath): without a client, or
\* when sanitizeBlobPath throws, the answer is { exists: false }.
GetBlobMetadata ==
    /\ blob.pc = "getBlobMetadata"
    /\ LET r == sanitizeBlobPath(blob.blobPath)
       IN blob' =
            IF ~blob.containerClient \/ r.thrown # "none"
              THEN [blob EXCEPT !.pc = "done", !.outcome = "exists: false"]
            ELSE [blob EXCEPT !.pc = "client", !.handed = TRUE, !.path = r.path]
    /\ UNCHANGED <<creditVars, auth, application, cuotas, batch, limiter, alerts>>

\* The blob client's answer: the blob exists and is read, or it does not.
BlobClientAnswers ==
    /\ blob.pc = "client"
    /\ \E exists \in BOOLEAN :
        blob' = [blob EXCEPT !.pc = "done",
                             !.outcome = IF exists THEN "found" ELSE "not found"]
    /\ UNCHANGED <<creditVars, auth, application, cuotas, batch, limiter, alerts>>

NextBlob == GetBlob \/ GetBlobMetadata \/ BlobClientAnswers

SpecBlob == InitBlob /\ [][NextBlob]_vars

----------------------------------------------------------------------------
(* Claims *)

AgeRangeError == "Edad fuera del rango permitido (18-70). Edad calculada: "

\* C1: with all eleven fields present, evaluateCreditProfile returns
\* success = false with the age-range error, and scores nothing, if and only
\* if the computed age is below 18 or above 70; 18 and 70 are accepted, 17
\* and 71 are rejected.
C1_AgeGate ==
    (pc # "idle" /\ missing = {}) =>
        /\ pc \in {"rejected", "done"}
        /\ age = calculateAge(profile.fechaNacimiento, today, tzWest)
        /\ (~result.success) <=> (age.kind = "fin" /\ (age.v < 18 \/ age.v > 70))
        /\ (~result.success) =>
               /\ result.error = <<AgeRangeError, age.v>>
               /\ DOMAIN result = {"success", "error"}
               /\ scores = NoScores
        /\ age \in {Fin(18), Fin(70)} => result.success
        /\ age \in {Fin(17), Fin(71)} => ~result.success

C1_Witness ==
    /\ pc = "rejected" /\ missing = {} /\ age = Fin(71)
    /\ result = [success |-> FALSE, error |-> <<AgeRangeError, 71>>]

\* C2: in every successful result the decision is APROBADO if and only if
\* the score is at least 70, whatever the risk tier: a MEDIUM result
\* (65 <= score < 75) is approved from 70 on and rejected below 70.
C2_DecisionIffScore70 ==
    pc = "done" =>
        /\ result.success
        /\ result.data.evaluacion.puntuacion = overallScore
        /\ result.data.evaluacion.decision \in {"APROBADO", "RECHAZADO"}
        /\ result.data.evaluacion.decision = "APROBADO"
               <=> result.data.evaluacion.puntuacion >= 700
        /\ (overallScore >= 650 /\ overallScore < 750) =>
               result.data.evaluacion.nivelRiesgo = "MEDIUM"

C2_Witness ==
    /\ pc = "done"
    /\ result.data.evaluacion.nivelRiesgo = "MEDIUM"
    /\ result.data.evaluacion.puntuacion < 700
    /\ result.data.evaluacion.decision = "RECHAZADO"

\* The risk tier the specification gives a score (in tenths).
RiskTierOf(score) ==
    IF score >= 850 THEN "VERY_LOW"
    ELSE IF score >= 750 THEN "LOW"
    ELSE IF score >= 650 THEN "MEDIUM"
    ELSE IF score >= 500 THEN "HIGH"
    ELSE "VERY_HIGH"

\* C3: the risk tier reported is VERY_LOW from 85, LOW from 75, MEDIUM from
\* 65, HIGH from 50 and VERY_HIGH below 50, and no other tier value is ever
\* returned.
C3_RiskTier ==
    pc = "done" =>
        /\ result.data.evaluacion.nivelRiesgo
               \in {"VERY_LOW", "LOW", "MEDIUM", "HIGH", "VERY_HIGH"}
        /\ result.data.evaluacion.nivelRiesgo
               = RiskTierOf(result.data.evaluacion.puntuacion)

\* The exact weighted sum of the five factor scores, in hundredths.
WeightedSum100(sc) ==
    30 * sc.incomeDebtRatio + 25 * sc.employmentStability + 25 * sc.loanIncomeRatio
        + 10 * sc.ageFactor + 10 * sc.documentTypeFactor

\* C4: overallScore is the weighted sum of the five factor scores with
\* weights 0.30, 0.25, 0.25, 0.10, 0.10, rounded to one decimal, and lies in
\* [25, 100] for every profile that passes the age gate.
C4_OverallScore ==
    pc = "done" =>
        /\ 10 * overallScore <= WeightedSum100(scores) + 5
        /\ WeightedSum100(scores) + 5 < 10 * overallScore + 10
        /\ overallScore >= 250 /\ overallScore <= 1000
        /\ result.data.evaluacion.puntuacion = overallScore

C4_Witness ==
    /\ pc = "done"
    /\ WeightedSum100(scores) % 10 = 5
    /\ 10 * overallScore = WeightedSum100(scores) + 5

\* C5: no ratio with a possibly zero denominator puts NaN or Infinity into a
\* successful result: relacionIngresoGasto and capacidadPago are finite
\* numbers, also for ingresosMensuales = 0 and a per-payment amount of 0.
C5_FiniteKeyFactors ==
    pc = "done" =>
        /\ IsFinite(result.data.factoresClave.relacionIngresoGasto)
        /\ IsFinite(result.data.factoresClave.capacidadPago)

\* The step function of C6, on the exact ratio expenses / income.
IncomeDebtStep(expenses, income) ==
    IF income = 0 THEN 25
    ELSE IF 100 * expenses <= 25 * income THEN 100
    ELSE IF 100 * expenses <= 35 * income THEN 85
    ELSE IF 100 * expenses <= 45 * income THEN 70
    ELSE IF 100 * expenses <= 55 * income THEN 50
    ELSE 25

\* C6: the income/debt factor is a step function of
\* gastosMensuales / ingresosMensuales in percent with inclusive upper
\* bounds: <= 25 gives 100, <= 35 gives 85, <= 45 gives 70, <= 55 gives 50,
\* otherwise 25; an income of 0 gives 25.
C6_IncomeDebtStep ==
    pc = "done" =>
        scores.incomeDebtRatio
            = IncomeDebtStep(profile.gastosMensuales, profile.ingresosMensuales)

\* C7: the loan/income factor is a step function of
\* montoSolicitado / (ingresosMensuales * 12) with inclusive upper bounds:
\* <= 3 gives 100, <= 4 gives 85, <= 5 gives 70, <= 6 gives 50, otherwise 25;
\* an annual income of 0 gives 25.
C7_LoanIncomeStep ==
    pc = "done" =>
        LET loan == profile.montoSolicitado
            annual == profile.ingresosMensuales * 12
        IN  /\ scores.loanIncomeRatio \in {100, 85, 70, 50, 25}
            /\ scores.loanIncomeRatio = 100 <=> (annual > 0 /\ loan <= 3 * annual)
            /\ scores.loanIncomeRatio = 85
                   <=> (annual > 0 /\ loan > 3 * annual /\ loan <= 4 * annual)
            /\ scores.loanIncomeRatio = 70
                   <=> (annual > 0 /\ loan > 4 * annual /\ loan <= 5 * annual)
            /\ scores.loanIncomeRatio = 50
                   <=> (annual > 0 /\ loan > 5 * annual /\ loan <= 6 * annual)
            /\ scores.loanIncomeRatio = 25 <=> (annual = 0 \/ loan > 6 * annual)

C7_Witness ==
    /\ pc = "done"
    /\ profile.ingresosMensuales > 0
    /\ profile.montoSolicitado = 6 * 12 * profile.ingresosMensuales
    /\ scores.loanIncomeRatio = 50

\* C8: the employment factor is a step function of tiempoLaborando with
\* inclusive lower bounds: >= 48 gives 100, >= 36 gives 85, >= 24 gives 70,
\* >= 12 gives 50, otherwise 25.
C8_EmploymentStep ==
    pc = "done" =>
        LET m == profile.tiempoLaborando
        IN  /\ scores.employmentStability \in {100, 85, 70, 50, 25}
            /\ scores.employmentStability = 100 <=> m >= 48
            /\ scores.employmentStability = 85 <=> (m >= 36 /\ m < 48)
            /\ scores.employmentStability = 70 <=> (m >= 24 /\ m < 36)
            /\ scores.employmentStability = 50 <=> (m >= 12 /\ m < 24)
            /\ scores.employmentStability = 25 <=> m < 12

C8_Witness ==
    /\ pc = "done"
    /\ profile.tiempoLaborando = 12
    /\ scores.employmentStability = 50

\* C9: for every profile that reaches scoring the age factor is 100 when
\* 25 <= age <= 55 and 85 otherwise; the defensive score 50 is never
\* produced, because the age gate has excluded every age outside [18, 70].
C9_AgeFactor ==
    pc = "done" =>
        /\ scores.ageFactor \in {100, 85}
        /\ scores.ageFactor = 100 <=> (NumGE(age, 25) /\ NumLE(age, 55))
        /\ NumGE(age, 18) /\ NumLE(age, 70)

\* The payment-count rows of C10: thresholds in tenths of a point, and the
\* counts per period.
PaymentThresholds == <<700, 850, 1000>>

PaymentCounts ==
    [semanal |-> <<8, 13, 15>>, quincenal |-> <<4, 7, 8>>, mensual |-> <<3, 6, 12>>]

\* C10: the payment count is the value of the first row, scanning the
\* thresholds 0.70, 0.85, 1.00 upwards, whose threshold is >= score / 100
\* (inclusive: a score of exactly 70 with weekly gives 8, any score above it
\* 13), and a payment period outside the three enum values gives 0.
C10_PaymentCount ==
    pc = "done" =>
        LET n == result.data.pago.numeroPagos
            per == result.data.pago.periodo
        IN  IF per \in DOMAIN PaymentCounts
            THEN \E i \in DOMAIN PaymentThresholds :
                    /\ overallScore <= PaymentThresholds[i]
                    /\ \A j \in 1..(i - 1) : overallScore > PaymentThresholds[j]
                    /\ n = PaymentCounts[per][i]
            ELSE n = 0

C10_Witness ==
    /\ pc = "done"
    /\ overallScore = 700
    /\ result.data.pago.periodo = "semanal"
    /\ result.data.pago.numeroPagos = 8

\* The interest tiers of C11: <<lowest score, base rate, upper score, width
\* in points of score, span in points of rate>>.
InterestTiers ==
    <<<<85, 8, 100, 15, 4>>, <<75, 12, 85, 10, 4>>, <<65, 16, 75, 10, 4>>,
      <<50, 20, 65, 15, 5>>, <<0, 25, 50, 50, 5>>>>

\* C11: the annual interest rate is base + ((upper - score) / width) * span
\* of the first tier whose lowest score is <= score (8 + ((100 - s) / 15) * 4
\* from 85, 12 + ((85 - s) / 10) * 4 from 75, 16 + ((75 - s) / 10) * 4 from
\* 65, 20 + ((65 - s) / 15) * 5 from 50, 25 + ((50 - s) / 50) * 5 below),
\* rounded to two decimals, and lies in [8.00, 30.00] for every score in
\* [0, 100], the scores of rejected profiles included.
C11_InterestRate ==
    terms.pc = "done" =>
        LET s == terms.score
            r == terms.loanDetails.tasaInteresAnual
        IN  /\ r >= 800 /\ r <= 3000
            /\ \E i \in DOMAIN InterestTiers :
                   LET t == InterestTiers[i]
                       den == 10 * t[4]
                       num == 100 * t[2] * den + (10 * t[3] - s) * t[5] * 100
                   IN  /\ s >= 10 * t[1]
                       /\ \A j \in 1..(i - 1) : s < 10 * InterestTiers[j][1]
                       /\ 2 * (r * den - num) <= den
                       /\ 2 * (num - r * den) <= den

C11_Witness ==
    /\ terms.pc = "done"
    /\ terms.score = 0
    /\ terms.loanDetails.tasaInteresAnual = 3000

C13_FromReportedAmount ==
    terms.pc = "done" =>
        LET ld == terms.loanDetails
        IN  IF ld.periodicidad > 0
            THEN ld.montoPorPeriodo \in MathRound(ld.montoAprobado, ld.periodicidad)
            ELSE ld.montoPorPeriodo = 0

\* C13 amended: the reported instalment is the unrounded approved amount
\* (overallScore / 100) * montoSolicitado divided by the payment count,
\* rounded to the nearest cent, when the count is positive, and 0 when the
\* count is 0; the annual interest rate has no part in it.
C13_FromUnroundedAmount ==
    terms.pc = "done" =>
        LET ld == terms.loanDetails
            exact10 == terms.score * terms.montoSolicitado
            n == ld.periodicidad
        IN  IF n > 0
            THEN /\ 2 * (10 * n * ld.montoPorPeriodo - exact10) <= 10 * n
                 /\ 2 * (exact10 - 10 * n * ld.montoPorPeriodo) <= 10 * n
            ELSE ld.montoPorPeriodo = 0

\* Score 70.5, 1001 requested, fortnightly: 705.71 approved in 7 payments of
\* 100.81, where 705.71 / 7 is 100.8157.
C13_Witness ==
    /\ terms.pc = "done"
    /\ terms.score = 705
    /\ terms.montoSolicitado = 1001
    /\ terms.loanDetails.periodicidad = 7
    /\ terms.loanDetails.montoAprobado = 70571
    /\ terms.loanDetails.montoPorPeriodo = 10081

\* The terms the formulas give a score s (tenths) and a requested amount m:
\* approved amount ma and instalment mp to the nearest cent, payment count n
\* from the table of the period, rate r from the tier of the score.
TermsByFormulas(s, m, per, ma, n, mp, r) ==
    /\ 2 * (10 * ma - s * m) <= 10 /\ 2 * (s * m - 10 * ma) <= 10
    /\ IF per \in DOMAIN PaymentCounts
       THEN \E i \in DOMAIN PaymentThresholds :
               /\ s <= PaymentThresholds[i]
               /\ \A j \in 1..(i - 1) : s > PaymentThresholds[j]
               /\ n = PaymentCounts[per][i]
       ELSE n = 0
    /\ IF n > 0
       THEN 2 * (10 * n * mp - s * m) <= 10 * n /\ 2 * (s * m - 10 * n * mp) <= 10 * n
       ELSE mp = 0
    /\ \E i \in DOMAIN InterestTiers :
           LET t == InterestTiers[i]
               den == 10 * t[4]
               num == 100 * t[2] * den + (10 * t[3] - s) * t[5] * 100
           IN  /\ s >= 10 * t[1]
               /\ \A j \in 1..(i - 1) : s < 10 * InterestTiers[j][1]
               /\ 2 * (r * den - num) <= den /\ 2 * (num - r * den) <= den

\* C14: every profile that passes the age gate gets success = true with its
\* loan terms, whatever the decision: below 70 the decision is RECHAZADO and
\* montoAprobado, numeroPagos, montoPorPago and tasaInteresAnual are filled
\* by the same formulas as from 70 on.
C14_TermsWhateverDecision ==
    /\ (pc \in {"threw", "rejected", "done"} /\ missing = {}
            /\ ~(age.kind = "fin" /\ (age.v < 18 \/ age.v > 70)))
           => pc = "done"
    /\ pc = "done" =>
           /\ result.success
           /\ DOMAIN result = {"success", "data"}
           /\ overallScore < 700 => result.data.evaluacion.decision = "RECHAZADO"
           /\ TermsByFormulas(result.data.evaluacion.puntuacion,
                              profile.montoSolicitado, profile.periodoPago,
                              result.data.prestamo.montoAprobado,
                              result.data.pago.numeroPagos,
                              result.data.pago.montoPorPago,
                              result.data.pago.tasaInteresAnual)

C14_Witness ==
    /\ pc = "done"
    /\ overallScore < 700
    /\ result.success
    /\ result.data.evaluacion.decision = "RECHAZADO"
    /\ result.data.prestamo.montoAprobado > 0
    /\ result.data.pago.numeroPagos > 0
    /\ result.data.pago.montoPorPago > 0
    /\ result.data.pago.tasaInteresAnual > 1400

MissingFieldError == "Error en la evaluacion crediticia: Campo requerido faltante: "

\* C15: a profile with required fields absent (undefined or null) gets
\* success = false with an error naming the first absent field in the order
\* nombre, tipoDocumento, numeroDocumento, fechaNacimiento, tipoPrestamo,
\* montoSolicitado, plazoMeses, periodoPago, ingresosMensuales,
\* gastosMensuales, tiempoLaborando, and neither the age gate nor the scoring
\* is evaluated; a field whose value is 0 or the empty string is not absent.
C15_FirstMissingField ==
    /\ (pc \in {"threw", "rejected", "done"} /\ missing # {}) =>
           /\ pc = "threw"
           /\ ~result.success
           /\ DOMAIN result = {"success", "error"}
           /\ \E i \in DOMAIN RequiredFields :
                  /\ RequiredFields[i] \in missing
                  /\ \A j \in 1..(i - 1) : RequiredFields[j] \notin missing
                  /\ result.error = <<MissingFieldError, RequiredFields[i]>>
           /\ age = Fin(0) /\ scores = NoScores /\ overallScore = 0
    /\ (pc \in {"threw", "rejected", "done"} /\ missing = {}) => pc # "threw"

C15_Witness ==
    /\ pc = "threw"
    /\ missing = {"gastosMensuales", "tipoDocumento"}
    /\ result = [success |-> FALSE, error |-> <<MissingFieldError, "tipoDocumento">>]

\* C16: the computed age is currentYear - birthYear, less 1 exactly when
\* (currentMonth, currentDay) is lexicographically before (birthMonth,
\* birthDay) of the birth date given; on the birthday itself it is not
\* decremented.  Stated for birth dates that are calendar dates.
C16_AgeByCalendar ==
    (pc \in {"rejected", "done"} /\ ParseDate(profile.fechaNacimiento) = profile.fechaNacimiento) =>
        LET birth == profile.fechaNacimiento
            before == \/ today[2] < birth[2]
                      \/ today[2] = birth[2] /\ today[3] < birth[3]
        IN  age = Fin(today[1] - birth[1] - (IF before THEN 1 ELSE 0))

\* C18: every evaluateCredit call is independent of the calls before it: a
\* request without customCriteria, after any earlier calls (with customCriteria
\* or without), is scored under the criteria of a freshly constructed service
\* and gets the result a fresh service gives.
C18_IndependentCalls ==
    (service.pc = "ready" /\ service.calls > 0 /\ ~service.request.hasCustomCriteria) =>
        /\ service.criteria = DefaultCriteria
        /\ service.result = evaluateProfile(DefaultCriteria, service.request.profile, today)

\* The response of a request none of whose log calls rejects.
ResponseWhenLogged ==
    IF validateCreditEvaluationRequest(profile, missing) # NoError
    THEN ValidationResponse(validateCreditEvaluationRequest(profile, missing), today)
    ELSE ResultResponse(result, today)

\* C19: the response of the endpoint does not depend on logging: once the
\* handler has finished, a response was sent, and its status and body are
\* the ones sent when every webhookLogService.log call resolves; a rejected
\* log call never turns a successful evaluation into an error response.
C19_LoggingIndependence ==
    endpoint.pc \in {"responded", "unanswered"} =>
        /\ endpoint.pc = "responded"
        /\ endpoint.response.status = ResponseWhenLogged.status
        /\ endpoint.response = ResponseWhenLogged

\* C20: engine success is answered with 200 and {success: true, data}; an
\* engine rejection (success = false) with 400 and {success: false, error:
\* the engine's message}; a validator failure with 400 and a body that
\* carries 'Validation Error' and a message, a shape no business rejection
\* has.
C20_ResponseMapping ==
    endpoint.pc \in {"responded", "unanswered"} =>
        LET status == endpoint.response.status
            body == endpoint.response.body
        IN  /\ endpoint.pc = "responded"
            /\ pc = "done" =>
                   /\ status = 200
                   /\ "data" \in DOMAIN body /\ body.success
                   /\ body.data = result.data
            /\ pc \in {"threw", "rejected"} =>
                   /\ status = 400
                   /\ "message" \notin DOMAIN body /\ "error" \in DOMAIN body
                   /\ ~body.success
                   /\ body.error = result.error
            /\ pc = "off" =>
                   /\ status = 400
                   /\ "message" \in DOMAIN body /\ "error" \in DOMAIN body
                   /\ ~body.success
                   /\ body.error = <<"Validation Error", "">>
                   /\ body.message[1] = "Validation error: "

\* The mapping of C20 holds in every request whose log calls all resolve.
ResponseMappingWhenLogged ==
    endpoint.logRejected = 0 => C20_ResponseMapping

\* The request carries the configured key in the x-auth-key header or, the
\* header being absent, in the authKey query parameter.
CarriesConfiguredKey ==
    \/ auth.header = StringKey(ConfiguredAuthKey)
    \/ auth.header = NoKey /\ auth.query = StringKey(ConfiguredAuthKey)

UpdatesBy(c) == {i \in 1..Len(application.updates) : application.updates[i].call = c}

NotificationsBy(c) ==
    {i \in 1..Len(application.notifications) : application.notifications[i].call = c}

\* C22: over sequential decisions, a processLoanDecision that finds the
\* application 'approved' or 'rejected' answers success=false with
\* STATUS_IMMUTABLE, applies no updateLoanApplication and sends no
\* notification, and the stored status changes at most once.
C22_StatusImmutable ==
    application.pc = "loan" =>
        /\ \A c \in Decisions :
            application.calls[c].read \in FinalStatuses =>
                /\ application.calls[c].pc = "done"
                /\ application.calls[c].response = LoanDecisionFailure("STATUS_IMMUTABLE")
                /\ UpdatesBy(c) = {}
                /\ NotificationsBy(c) = {}
        /\ Len(application.updates) <= 1
        /\ \A i \in 1..Len(application.updates) :
              application.updates[i].from \notin FinalStatuses

C22_Witness ==
    /\ application.pc = "loan"
    /\ Len(application.updates) = 1
    /\ \E c \in Decisions :
        /\ application.calls[c].pc = "done"
        /\ application.calls[c].read \in FinalStatuses
        /\ UpdatesBy(c) = {}
    /\ \A c \in Decisions : application.calls[c].pc = "done"

\* C23: with two processLoanDecision calls for the same pending application
\* in flight together, at most one applies its status update and sends a
\* notification, the stored status never goes from one final status to the
\* other, and no two contradictory notifications are sent.
C23_AtMostOneDecision ==
    application.pc = "loan" =>
        /\ Len(application.updates) <= 1
        /\ \A i \in 1..Len(application.updates) :
              application.updates[i].from \notin FinalStatuses
        /\ \A i, j \in 1..Len(application.notifications) :
              application.notifications[i].resultado = application.notifications[j].resultado

\* C24: when updateLoanApplication succeeded and notifyLoanDecision throws,
\* processLoanDecision still answers success=true with the decided status,
\* and the update stays applied.
C24_NotificationFailureTolerated ==
    application.pc = "loan" =>
        \A c \in Decisions :
            application.calls[c].notified = "failed" =>
                LET status == decidedStatus(application.calls[c].approved)
                IN /\ application.calls[c].pc = "done"
                   /\ application.calls[c].response = LoanDecisionSuccess(status)
                   /\ UpdatesBy(c) # {}
                   /\ application.stored.status = status
                   /\ NotificationsBy(c) = {}

C24_Witness ==
    /\ application.pc = "loan"
    /\ \E c \in Decisions :
        /\ application.calls[c].notified = "failed"
        /\ application.calls[c].response.success
        /\ application.stored.status = "rejected"

\* C25: the instalment range is piecewise in the amount owed: [3,12] from
\* 10000 to 50000 inclusive, [6,24] above 50000 up to 200000 inclusive,
\* [12,36] above 200000, and [1,m] with 1 <= m <= 6 below 10000.
C25_RangeByAmount ==
    (cuotas.pc = "done" /\ ~cuotas.montoBase.nan) =>
        LET cents == cuotas.montoBase.cents
            min == cuotas.response.min
            max == cuotas.response.max
        IN /\ (cents >= 1000000 /\ cents <= 5000000) => (min = 3 /\ max = 12)
           /\ (cents > 5000000 /\ cents <= 20000000) => (min = 6 /\ max = 24)
           /\ cents > 20000000 => (min = 12 /\ max = 36)
           /\ cents < 1000000 => (min = 1 /\ max >= 1 /\ max <= 6)

C25_Witness ==
    /\ cuotas.pc = "done"
    /\ cuotas.montoBase = Monto(5000000)
    /\ cuotas.response.min = 3
    /\ cuotas.response.max = 12

\* The values not above the tier's maximum whose instalment is at least the
\* minimum instalment.
AffordableCuotas(montoBase) ==
    LET range == initialRange(montoBase)
    IN {v \in 1..range.maxCuotas :
            ~montoBase.nan /\ montoBase.cents >= MontoMinimoCuota * v}

MaxOf(S) == CHOOSE v \in S : \A w \in S : w <= v

\* C26: calcularRangoCuotasDinamico terminates for every amount, zero and
\* negative included, and returns 1 <= minCuotas <= maxCuotas, where
\* maxCuotas is the largest value not above the tier's maximum whose
\* instalment amount/maxCuotas is at least 500, or minCuotas when there is
\* no such value.
C26_RangeWellFormed ==
    /\ <>(cuotas.pc = "done")
    /\ [](cuotas.pc = "done" =>
            /\ 1 <= cuotas.response.min
            /\ cuotas.response.min <= cuotas.response.max
            /\ cuotas.response.min = initialRange(cuotas.montoBase).minCuotas
            /\ cuotas.response.max =
                 IF AffordableCuotas(cuotas.montoBase) = {}
                   THEN cuotas.response.min
                   ELSE MaxOf(AffordableCuotas(cuotas.montoBase)))

C26_Witness ==
    /\ cuotas.pc = "done"
    /\ cuotas.montoBase = Monto(250000)
    /\ cuotas.response.max = 5
    /\ cuotas.iterations = 1

\* C27: evaluateMultipleProfiles returns exactly one result per input
\* profile, in input order: the evaluation of the profile, or, for a profile
\* whose evaluation throws, the placeholder (score 0, VERY_HIGH, not
\* approved) at its position, the profiles after it being evaluated still.
C27_OneResultPerProfile ==
    batch.pc = "done" =>
        /\ Len(batch.returned) = Len(batch.profiles)
        /\ \A i \in 1..Len(batch.profiles) :
            IF batch.profiles[i].hasTipoDocumento
            THEN batch.returned[i] =
                    evaluateProfile(DefaultCriteria, batch.profiles[i].profile, today)
            ELSE /\ batch.returned[i].score = 0
                 /\ batch.returned[i].risk_level = "VERY_HIGH"
                 /\ batch.returned[i].approved = FALSE

C27_Witness ==
    /\ batch.pc = "done"
    /\ Len(batch.profiles) = 3
    /\ batch.profiles[1].hasTipoDocumento
    /\ ~batch.profiles[2].hasTipoDocumento
    /\ batch.profiles[3].hasTipoDocumento
    /\ batch.profiles[1].profile # batch.profiles[3].profile
    /\ batch.returned[2] = FailedEvaluation
    /\ batch.returned[3].score > 0
    /\ batch.returned[1] # batch.returned[3]

\* The calls of one address let through at a time from start on and less
\* than the window after it.
ThroughInWindow(ip, start) ==
    Cardinality({i \in 1..Len(limiter.through[ip]) :
                    /\ limiter.through[ip][i] >= start
                    /\ limiter.through[ip][i] < start + rateLimitWindow})

\* C28: in any 60-second window the rate limiter lets through at most
\* maxLogsPerWindow (10) log calls of one IP address, whatever endpoints
\* the calls name.
C28_AtMostTenPerWindow ==
    limiter.pc = "log" =>
        \A ip \in LogIps :
            \A t \in ClockTimes :
                ThroughInWindow(ip, t) <= maxLogsPerWindow

\* The window the i-th matching call falls in, told from the calls alone:
\* its start and the matching calls in it so far. A window starts with the
\* first matching call, with the first one later than timeWindow minutes
\* after the start of the window before, and at the call that returned true.
RECURSIVE WindowAt(_)
WindowAt(i) ==
    LET call == alerts.history[i]
        windowMs == alerts.threshold.timeWindow * MsPerMinute
    IN IF i = 1 THEN [start |-> call.time, events |-> 1]
       ELSE LET before == WindowAt(i - 1)
                start == IF alerts.history[i - 1].returned
                         THEN alerts.history[i - 1].time ELSE before.start
                events == IF alerts.history[i - 1].returned THEN 0 ELSE before.events
            IN IF call.time - start > windowMs
               THEN [start |-> call.time, events |-> 1]
               ELSE [start |-> start, events |-> events + 1]

NoDotDot(s) == \A i \in 1..(Len(s) - 1) : ~(s[i] = "." /\ s[i + 1] = ".")

NoSlashRun(s) == \A i \in 1..(Len(s) - 1) : ~(s[i] = "/" /\ s[i + 1] = "/")

NoLeadingSlash(s) == Len(s) = 0 \/ s[1] # "/"

\* C30: the path sanitizeBlobPath returns, which getBlob and getBlobMetadata
\* hand to the blob client, is not empty, holds no '..', no run of slashes
\* and no leading '/', and only characters of [a-zA-Z0-9-_/.].
C30_SanitizedPath ==
    blob.handed =>
        /\ Len(blob.path) > 0
        /\ NoDotDot(blob.path)
        /\ NoSlashRun(blob.path)
        /\ NoLeadingSlash(blob.path)
        /\ allowedPattern(blob.path)

\* What holds of the path handed to the blob client: all of it but the
\* leading slash.
SanitizedButLeadingSlash ==
    blob.handed =>
        /\ Len(blob.path) > 0
        /\ NoDotDot(blob.path)
        /\ NoSlashRun(blob.path)
        /\ allowedPattern(blob.path)
        /\ ~NoLeadingSlash(blob.path) =>
              \E i \in 1..Len(blob.blobPath) : blob.blobPath[i] = " "

====
